---- MODULE Spec2Model ----
(***************************************************************************)
(* Model of the Forward+ renderer of vulkanwork                            *)
(* (src/src/graphics/renderer.cpp): the scene resource tables              *)
(* (meshes_, materials_, textures_ and the material descriptor pool) with  *)
(* load / import / delete, and the frame scheduler (begin_frame /          *)
(* end_frame over MAX_FRAMES_IN_FLIGHT slots, the GPU queue and fences).   *)
(*                                                                         *)
(* Table indices are the program's 0-based values; sequences are 1-based,  *)
(* so table entry i is At(table, i) = table[i + 1].                        *)
(***************************************************************************)
EXTENDS Integers, Sequences, FiniteSets, TLC

\* ------------------------------------------------------------------------
\* Program constants
\* ------------------------------------------------------------------------
MAX_FRAMES_IN_FLIGHT == 2
NumTexSlots == 4
VK_NULL_HANDLE == 0
NoBuffer == <<VK_NULL_HANDLE, VK_NULL_HANDLE>>
TILE_SIZE == 16
MAX_LIGHTS_PER_TILE == 256
MAX_LIGHTS == 1024

\* ------------------------------------------------------------------------
\* Bounds of the model
\* ------------------------------------------------------------------------
MaxAssetMeshes == 2
MaxAssetMaterials == 2
MaxAssetTextures == 1
MaxUsedSlots == 1
MaxSceneOps == 2
MaxScreen == 33
MaxDrawsPerFrame == 1
MaxTileLights == 258
MaxExtraLights == 1
MaxNodes == 4

VARIABLES
    meshes_,                  \* Seq of [id, materialIndex]
    materials_,               \* Seq of [id, tex, descriptorSet, setIndex, factorBuffer]
    textures_,                \* Seq of [id]
    materialDescriptorPool_,  \* handle of the live pool, VK_NULL_HANDLE if none
    nextPool,                 \* next fresh descriptor pool handle
    destroyedTex,             \* ids of textures passed to destroy_texture
    poolMaxSets,              \* maxSets the live pool was created with, 0 if none
    destroyed,                \* handles of the GPU objects destroyed so far
    destroyedTwice,           \* handles destroyed when they already were destroyed
    opCount,                  \* scene operations performed so far
    lastOp,                   \* the last scene operation and its inputs/locals
    currentFrame_,            \* frame slot used by the next begin/end_frame
    inFlightFences_,          \* slot -> fence signaled?
    gpuQueue,                 \* slots whose submission has not completed, oldest first
    commandBuffers_,          \* slot -> "initial" | "recording" | "pending" | "executable"
    pc,                       \* where the CPU thread is
    ctx,                      \* FrameContext held by the caller: [slot] or NoCtx
    framebufferResized_,      \* notify_resize() pending
    frameResult,              \* what the last begin_frame returned
    lastWrite,                \* last CPU write to a per-frame resource, and what
                              \* update_uniforms wrote if it was the writer
    hazards,                  \* CPU writes that hit a slot with a submission in flight
    swapchainExtent_,         \* [width, height] of the swapchain images
    tileCountX_,              \* tile grid of the light culling
    tileCountY_,
    tileLightSSBOs_,          \* slot -> size of its tile light buffer, in uint32 entries
    lightDescriptorSets_,     \* slot -> [buffer, range] bound at binding 1 (tile buffer)
    depthLayout,              \* layout of depthImage_ once everything recorded so far has run
    cmdStream,                \* commands recorded so far into the command buffer of the
                              \* frame being recorded; <<>> once it is submitted
    debugLineVertexCount_,    \* vertices uploaded by the last update_debug_lines
    lastCull,                 \* last run of the culling kernel on one tile
    nodes,                    \* SceneGraph::nodes: Seq of [name, parent, children]
    roots,                    \* SceneGraph::roots: Seq of node indices
    lastGraphOp               \* the last scene graph call, its argument and the
                              \* graph it was called on

sceneVars == <<meshes_, materials_, textures_, materialDescriptorPool_, nextPool,
               destroyedTex, poolMaxSets, destroyed, destroyedTwice, opCount, lastOp,
               nodes, roots, lastGraphOp>>
graphVars == <<nodes, roots, lastGraphOp>>
tileVars == <<swapchainExtent_, tileCountX_, tileCountY_, tileLightSSBOs_,
              lightDescriptorSets_, lastCull>>
recVars == <<depthLayout, cmdStream, debugLineVertexCount_>>
frameVars == <<currentFrame_, inFlightFences_, gpuQueue, commandBuffers_, pc, ctx,
               framebufferResized_, frameResult, lastWrite, hazards,
               swapchainExtent_, tileCountX_, tileCountY_, tileLightSSBOs_,
               lightDescriptorSets_, depthLayout, cmdStream,
               debugLineVertexCount_, lastCull>>
vars == <<meshes_, materials_, textures_, materialDescriptorPool_, nextPool,
          destroyedTex, poolMaxSets, destroyed, destroyedTwice, opCount, lastOp,
          currentFrame_, inFlightFences_, gpuQueue, commandBuffers_, pc, ctx,
          framebufferResized_, frameResult, lastWrite, hazards,
          swapchainExtent_, tileCountX_, tileCountY_, tileLightSSBOs_,
          lightDescriptorSets_, depthLayout, cmdStream, debugLineVertexCount_,
          lastCull, nodes, roots, lastGraphOp>>

\* ------------------------------------------------------------------------
\* Sequence helpers (std::vector operations)
\* ------------------------------------------------------------------------
At(s, i) == s[i + 1]

\* variant: the last element is moved into the hole and the vector popped
EraseAtSwapLast(s, i) ==
    [j \in 1..(Len(s) - 1) |-> IF j = i + 1 THEN s[Len(s)] ELSE s[j]]

\* vector::erase(begin() + i)
EraseAt(s, i) ==
    [j \in 1..(Len(s) - 1) |-> IF j < i + 1 THEN s[j] ELSE s[j + 1]]

Range(s) == {s[j] : j \in DOMAIN s}

SeqsUpTo(S, lo, hi) == UNION {[1..n -> S] : n \in lo..hi}

\* ------------------------------------------------------------------------
\* Assets: what load_gltf can return (gltfLoader.cpp)
\* ------------------------------------------------------------------------
\* The four texture references of a material, in declaration order:
\* baseColorTexture, metallicRoughnessTexture, normalTexture, emissiveTexture.
SlotTuples(t) ==
    {s \in [1..NumTexSlots -> (-1)..(t - 1)] :
        Cardinality({k \in 1..NumTexSlots : s[k] >= 0}) <= MaxUsedSlots}

\* extract_materials guarantees at least one material; a primitive without a
\* material gets materialIndex 0.
Assets ==
    UNION {
        {[meshes |-> ms, materials |-> mats, ntex |-> t] :
            ms \in SeqsUpTo(0..(k - 1), 0, MaxAssetMeshes),
            mats \in [1..k -> SlotTuples(t)]} :
        <<t, k>> \in (0..MaxAssetTextures) \X (1..MaxAssetMaterials)}

\* Models given as the start-up model (main.cpp): one mesh, one material.
InitAssets == {a \in Assets : Len(a.meshes) = 1 /\ Len(a.materials) = 1}

\* load_gltf: the Scene built from a decoded asset; op tags the content.
load_gltf(a, op) ==
    [meshes    |-> [j \in 1..Len(a.meshes) |->
                       [id |-> <<op, j>>, materialIndex |-> a.meshes[j]]],
     materials |-> [j \in 1..Len(a.materials) |->
                       [id |-> <<op, j>>, tex |-> a.materials[j],
                        descriptorSet |-> VK_NULL_HANDLE,
                        setIndex |-> -1, factorBuffer |-> NoBuffer]],
     textures  |-> [j \in 1..a.ntex |-> [id |-> <<op, j>>]]]

EmptyScene == [meshes |-> <<>>, materials |-> <<>>, textures |-> <<>>]

\* ------------------------------------------------------------------------
\* Scene loading
\* ------------------------------------------------------------------------
add_cube_to_scene(scene, op) ==
    LET textures == Append(scene.textures,
                           [id |-> <<op, Len(scene.textures) + 1>>])
        gridTexIdx == Len(textures) - 1
        cubeMaterialIdx == Len(scene.materials)
        cubeMat == [id |-> <<op, Len(scene.materials) + 1>>,
                    tex |-> <<gridTexIdx, -1, -1, -1>>,
                    descriptorSet |-> VK_NULL_HANDLE,
                    setIndex |-> -1, factorBuffer |-> NoBuffer]
        cube == [id |-> <<op, Len(scene.meshes) + 1>>,
                 materialIndex |-> cubeMaterialIdx]
    IN  [meshes    |-> Append(scene.meshes, cube),
         materials |-> Append(scene.materials, cubeMat),
         textures  |-> textures]

\* create_material_descriptor_pool(materialCount): the maxSets of the pool
create_material_descriptor_pool(materialCount) ==
    IF materialCount = 0 THEN 1 ELSE materialCount

\* variant: the sets are allocated back to front
create_material_descriptors_reversed(mats, pool) ==
    [j \in 1..Len(mats) |->
        [mats[j] EXCEPT !.descriptorSet = pool,
                        !.setIndex = Len(mats) - j,
                        !.factorBuffer = <<pool, Len(mats) - j>>]]

\* variant: a material that has a factor buffer handle keeps it
create_material_descriptors_keep_buffers(mats, pool) ==
    [j \in 1..Len(mats) |->
        [mats[j] EXCEPT !.descriptorSet = pool,
                        !.setIndex = j - 1,
                        !.factorBuffer = IF mats[j].factorBuffer # NoBuffer
                                         THEN mats[j].factorBuffer
                                         ELSE <<pool, j - 1>>]]

\* create_material_descriptor for every material, in index order, from pool
\* `pool`: the material's set is the next one allocated from the pool, and
\* a fresh factor buffer is created for it.
create_material_descriptors(mats, pool) ==
    [j \in 1..Len(mats) |->
        [mats[j] EXCEPT !.descriptorSet = pool,
                        !.setIndex = j - 1,
                        !.factorBuffer = <<pool, j - 1>>]]

\* Handles of GPU objects, as they are handed to vkDestroy*
PoolHandle(p) == <<"descriptorPool", p, 0>>
FactorBufferHandle(b) == <<"factorBuffer", b[1], b[2]>>
VertexBufferHandle(mesh) == <<"vertexBuffer", mesh.id[1], mesh.id[2]>>
IndexBufferHandle(mesh) == <<"indexBuffer", mesh.id[1], mesh.id[2]>>
TextureHandle(id) == <<"texture", id[1], id[2]>>

\* if (mat.factorBuffer) vkDestroyBuffer(mat.factorBuffer), for mats[idx[1]],
\* mats[idx[2]], ... in that order (idx: 0-based indices)
RECURSIVE destroy_factor_buffers(_, _)
destroy_factor_buffers(mats, idx) ==
    IF idx = <<>> THEN <<>>
    ELSE (IF At(mats, Head(idx)).factorBuffer # NoBuffer
          THEN <<FactorBufferHandle(At(mats, Head(idx)).factorBuffer)>>
          ELSE <<>>) \o destroy_factor_buffers(mats, Tail(idx))

\* if (materialDescriptorPool_) vkDestroyDescriptorPool(...)
destroy_pool(pool) ==
    IF pool # VK_NULL_HANDLE THEN <<PoolHandle(pool)>> ELSE <<>>

\* What rebuild_material_descriptors destroys: the factor buffer of every
\* material of the table, in index order, then the old pool.
rebuild_destroys(mats, pool) ==
    destroy_factor_buffers(mats, [j \in 1..Len(mats) |-> j - 1]) \o destroy_pool(pool)

\* The handles `hs` are destroyed in order, D being destroyed already: a
\* handle is destroyed twice if it is in D or occurs twice in hs.
Destroy(hs, D, twice) ==
    [destroyed |-> D \cup Range(hs),
     twice |-> twice \cup {hs[j] : j \in {k \in DOMAIN hs :
                              \/ hs[k] \in D
                              \/ \E l \in 1..(k - 1) : hs[l] = hs[k]}}]

\* create_default_textures: the two 1x1 fallback textures are members of the
\* renderer of their own, uploaded once at start-up, never put in textures_.
defaultWhite_ == [id |-> <<-1, 1>>]

defaultNormal_ == [id |-> <<-1, 2>>]

\* variant: a pool is created even when no material is left
rebuild_material_descriptors_always_pool(mats, nxt) ==
    [materials |-> create_material_descriptors(mats, nxt),
     pool |-> nxt, nextPool |-> nxt + 1,
     maxSets |-> create_material_descriptor_pool(Len(mats))]

\* rebuild_material_descriptors: the old pool is destroyed and every set
\* with it; when materials remain, one new pool serves all of them.
\* Returns [materials, pool, nextPool].
rebuild_material_descriptors(mats, nxt) ==
    IF Len(mats) = 0
    THEN [materials |-> mats, pool |-> VK_NULL_HANDLE, nextPool |-> nxt,
          maxSets |-> 0]
    ELSE [materials |-> create_material_descriptors(mats, nxt),
          pool |-> nxt, nextPool |-> nxt + 1,
          maxSets |-> create_material_descriptor_pool(Len(mats))]

\* ------------------------------------------------------------------------
\* import_gltf
\* ------------------------------------------------------------------------
\* variant: the -1 sentinel is offset like any index
OffsetTexAlways(idx, texOffset) == idx + texOffset

\* if (idx >= 0) idx += texOffset
OffsetTex(idx, texOffset) == IF idx >= 0 THEN idx + texOffset ELSE idx

\* variant: the imported mesh keeps its asset-local index
OffsetMatNone(idx, matOffset) == idx

\* mesh.materialIndex += matOffset
OffsetMat(idx, matOffset) == idx + matOffset

\* variant: the uploaded textures are never appended to textures_
import_tables_no_textures(T, scene) ==
    LET matOffset == Len(T.materials)
    IN  [textures  |-> T.textures,
         materials |-> T.materials \o scene.materials,
         meshes    |-> T.meshes \o
                       [j \in 1..Len(scene.meshes) |->
                           [scene.meshes[j] EXCEPT
                               !.materialIndex =
                                   scene.meshes[j].materialIndex + matOffset]]]

\* The three tables after the appends of import_gltf (before the rebuild).
import_tables(T, scene) ==
    LET texOffset == Len(T.textures)
        matOffset == Len(T.materials)
    IN  [textures  |-> T.textures \o scene.textures,
         materials |-> T.materials \o
                       [j \in 1..Len(scene.materials) |->
                           [scene.materials[j] EXCEPT
                               !.tex = [k \in 1..NumTexSlots |->
                                           OffsetTex(scene.materials[j].tex[k],
                                                     texOffset)]]],
         meshes    |-> T.meshes \o
                       [j \in 1..Len(scene.meshes) |->
                           [scene.meshes[j] EXCEPT
                               !.materialIndex =
                                   OffsetMat(scene.meshes[j].materialIndex,
                                             matOffset)]]]

\* What load_gltf hands back: a Scene, or an exception
\* (std::runtime_error "Failed to load glTF").
Loaded(scene) == [ok |-> TRUE, scene |-> scene]
LoadFailed == [ok |-> FALSE, scene |-> EmptyScene]

\* variant: the bindings are torn down and rebuilt before load_gltf is called
import_gltf_rebuild_first(T, pool, nxt, loaded) ==
    LET r0 == rebuild_material_descriptors(T.materials, nxt)
    IN  IF ~loaded.ok
        THEN [meshes |-> T.meshes, materials |-> r0.materials,
              textures |-> T.textures, pool |-> r0.pool,
              nextPool |-> r0.nextPool, maxSets |-> r0.maxSets,
              destroys |-> rebuild_destroys(T.materials, pool), threw |-> TRUE]
        ELSE LET t == import_tables(T, loaded.scene)
                 r == rebuild_material_descriptors(t.materials, r0.nextPool)
             IN  [meshes |-> t.meshes, materials |-> r.materials,
                  textures |-> t.textures, pool |-> r.pool,
                  nextPool |-> r.nextPool, maxSets |-> r.maxSets,
                  destroys |-> rebuild_destroys(T.materials, pool)
                               \o rebuild_destroys(r0.materials, r0.pool),
                  threw |-> FALSE]

\* import_gltf, whole: load_gltf is called first; an exception leaves the
\* function there. Otherwise append, then rebuild_material_descriptors.
\* Returns the tables, the pool and its maxSets (-1: left as it was), the
\* handles destroyed, and whether the call threw.
import_gltf(T, pool, nxt, loaded) ==
    IF ~loaded.ok
    THEN [meshes |-> T.meshes, materials |-> T.materials,
          textures |-> T.textures, pool |-> pool, nextPool |-> nxt,
          maxSets |-> -1, destroys |-> <<>>, threw |-> TRUE]
    ELSE LET t == import_tables(T, loaded.scene)
             r == rebuild_material_descriptors(t.materials, nxt)
         IN  [meshes |-> t.meshes, materials |-> r.materials,
              textures |-> t.textures, pool |-> r.pool,
              nextPool |-> r.nextPool, maxSets |-> r.maxSets,
              destroys |-> rebuild_destroys(t.materials, pool),
              threw |-> FALSE]

\* ------------------------------------------------------------------------
\* delete_mesh
\* ------------------------------------------------------------------------
\* step 3: matReferenced[m.materialIndex] = true for every remaining mesh
matReferenced(meshes, nMat) ==
    [i \in 0..(nMat - 1) |-> \E j \in DOMAIN meshes : meshes[j].materialIndex = i]

\* textures marked by the four markTex calls over a set of materials
MarkedBy(mats, nTex, which) ==
    [t \in 0..(nTex - 1) |->
        \E i \in 0..(Len(mats) - 1) :
            which[i] /\ \E k \in 1..NumTexSlots : At(mats, i).tex[k] = t]

\* texReferencedByUnrefMat: candidates, marked by the unreferenced materials
texReferencedByUnrefMat(mats, matRef, nTex) ==
    MarkedBy(mats, nTex, [i \in 0..(Len(mats) - 1) |-> ~matRef[i]])

\* variant: the second pass is skipped, every candidate counts as unreferenced
texReferencedNone(mats, nTex) == [t \in 0..(nTex - 1) |-> FALSE]

\* step 5: texReferenced, marked by every material that is left
texReferenced(mats, nTex) ==
    MarkedBy(mats, nTex, [i \in 0..(Len(mats) - 1) |-> TRUE])

\* step 4: for (i = size-1; i >= 0; --i) if (!matReferenced[i]) erase(i)
RECURSIVE EraseUnrefMaterials(_, _, _)
EraseUnrefMaterials(mats, matRef, i) ==
    IF i < 0 THEN [materials |-> mats, removed |-> <<>>]
    ELSE IF ~matRef[i]
         THEN LET r == EraseUnrefMaterials(EraseAt(mats, i), matRef, i - 1)
              IN  [materials |-> r.materials, removed |-> <<i>> \o r.removed]
         ELSE EraseUnrefMaterials(mats, matRef, i - 1)

\* variant: every texture no surviving material references is destroyed
TexDoomedUnreferenced(cand, ref, i) == ~ref[i]

\* which textures the second loop destroys
TexDoomed(cand, ref, i) == cand[i] /\ ~ref[i]

\* for (i = size-1; i >= 0; --i) if (cand[i] && !ref[i]) destroy + erase(i)
RECURSIVE EraseUnrefTextures(_, _, _, _)
EraseUnrefTextures(texs, cand, ref, i) ==
    IF i < 0 THEN [textures |-> texs, removed |-> <<>>, destroyed |-> {}]
    ELSE IF TexDoomed(cand, ref, i)
         THEN LET r == EraseUnrefTextures(EraseAt(texs, i), cand, ref, i - 1)
              IN  [textures |-> r.textures, removed |-> <<i>> \o r.removed,
                   destroyed |-> {At(texs, i).id} \cup r.destroyed]
         ELSE EraseUnrefTextures(texs, cand, ref, i - 1)

\* for (removed : removedIndices) if (removed <= idx) ++shift
ShiftCount(removed, idx) ==
    Cardinality({k \in DOMAIN removed : removed[k] <= idx})

\* variant: step 6 is missing
fixMatNoShift(idx, removed) == idx

\* step 6: m.materialIndex -= shift
fixMat(idx, removed) == idx - ShiftCount(removed, idx)

\* variant: step 7 is missing
fixTexNoShift(idx, removed) == idx

\* step 7: fixTex; negative references are left alone
fixTex(idx, removed) == IF idx < 0 THEN idx ELSE idx - ShiftCount(removed, idx)

\* The tables after steps 1-7 of delete_mesh(meshIdx), meshIdx in range,
\* with the locals removedMatIndices / removedTexIndices.
delete_tables(T, meshIdx) ==
    LET meshes1 == EraseAt(T.meshes, meshIdx)
        matRef  == matReferenced(meshes1, Len(T.materials))
        cand    == texReferencedByUnrefMat(T.materials, matRef, Len(T.textures))
        em      == EraseUnrefMaterials(T.materials, matRef, Len(T.materials) - 1)
        ref     == texReferenced(em.materials, Len(T.textures))
        et      == EraseUnrefTextures(T.textures, cand, ref, Len(T.textures) - 1)
    IN  [meshes    |-> [j \in 1..Len(meshes1) |->
                           [meshes1[j] EXCEPT
                               !.materialIndex =
                                   fixMat(meshes1[j].materialIndex, em.removed)]],
         materials |-> [j \in 1..Len(em.materials) |->
                           [em.materials[j] EXCEPT
                               !.tex = [k \in 1..NumTexSlots |->
                                           fixTex(em.materials[j].tex[k],
                                                  et.removed)]]],
         textures  |-> et.textures,
         removedMatIndices |-> em.removed,
         removedTexIndices |-> et.removed,
         texCand |-> {t \in DOMAIN cand : cand[t]},
         texRef |-> {t \in DOMAIN ref : ref[t]},
         destroyed |-> et.destroyed,
         destroys |-> <<VertexBufferHandle(At(T.meshes, meshIdx)),
                        IndexBufferHandle(At(T.meshes, meshIdx))>>
                      \o destroy_factor_buffers(T.materials, em.removed)
                      \o [k \in DOMAIN et.removed |->
                             TextureHandle(At(T.textures, et.removed[k]).id)]]

\* What a delete_mesh call that returns at the range check leaves behind
delete_mesh_returns(T, pool, nxt) ==
    [noop |-> TRUE, meshes |-> T.meshes, materials |-> T.materials,
     textures |-> T.textures, pool |-> pool, nextPool |-> nxt, maxSets |-> -1,
     destroyedTex |-> {}, destroys |-> <<>>,
     removedMatIndices |-> <<>>, removedTexIndices |-> <<>>,
     texCand |-> {}, texRef |-> {}]

\* What a delete_mesh call does past the range check: steps 1-7, then
\* rebuild_material_descriptors
delete_mesh_runs(T, pool, nxt, meshIdx) ==
    LET t == delete_tables(T, meshIdx)
        r == rebuild_material_descriptors(t.materials, nxt)
    IN  [noop |-> FALSE, meshes |-> t.meshes, materials |-> r.materials,
         textures |-> t.textures, pool |-> r.pool, nextPool |-> r.nextPool,
         maxSets |-> r.maxSets,
         destroyedTex |-> t.destroyed,
         destroys |-> t.destroys \o rebuild_destroys(t.materials, pool),
         removedMatIndices |-> t.removedMatIndices,
         removedTexIndices |-> t.removedTexIndices,
         texCand |-> t.texCand, texRef |-> t.texRef]

\* variant: an index past the end is clamped to the last mesh
delete_mesh_clamped(T, pool, nxt, meshIdx) ==
    IF Len(T.meshes) = 0 THEN delete_mesh_returns(T, pool, nxt)
    ELSE delete_mesh_runs(T, pool, nxt,
                          IF meshIdx >= Len(T.meshes) THEN Len(T.meshes) - 1
                          ELSE meshIdx)

\* delete_mesh, whole: if (meshIdx >= meshes_.size()) return;
delete_mesh(T, pool, nxt, meshIdx) ==
    IF meshIdx >= Len(T.meshes) THEN delete_mesh_returns(T, pool, nxt)
    ELSE delete_mesh_runs(T, pool, nxt, meshIdx)

Tables == [meshes |-> meshes_, materials |-> materials_, textures |-> textures_]

\* ------------------------------------------------------------------------
\* Resolution-dependent resources: swapchain extent, tile grid, tile buffers
\* ------------------------------------------------------------------------
Extent(w, h) == [width |-> w, height |-> h]

\* variant: the tile count is rounded down
TileCountFloor(pixels) == pixels \div TILE_SIZE

\* (pixels + TILE_SIZE - 1) / TILE_SIZE on uint32_t. The extent of a surface
\* is bounded by the device's maxImageExtent, far below 2^32 - TILE_SIZE
\* where the sum would wrap, so the operands are plain naturals here.
TileCount(pixels) == (pixels + TILE_SIZE - 1) \div TILE_SIZE

\* variant: the entry holding the tile's light count is not allotted
TileBufEntriesNoCount(tx, ty) == (tx * ty) * MAX_LIGHTS_PER_TILE

\* tileBufSize / sizeof(uint32_t): numTiles * (1 + MAX_LIGHTS_PER_TILE), with
\* numTiles the product of the tile counts
TileBufEntries(tx, ty) == (tx * ty) * (1 + MAX_LIGHTS_PER_TILE)

\* create_light_buffers: the tile grid of the current extent and one tile
\* light buffer per frame slot
create_light_buffers(extent) ==
    LET tx == TileCount(extent.width)
        ty == TileCount(extent.height)
    IN  [tileCountX |-> tx, tileCountY |-> ty,
         tileLightSSBOs |-> [k \in 0..(MAX_FRAMES_IN_FLIGHT - 1) |->
                                TileBufEntries(tx, ty)]]

\* create_light_descriptor_sets: binding 1 of set i is tileLightSSBOs_[i],
\* offset 0, range tileBufSize
create_light_descriptor_sets(tx, ty) ==
    [k \in 0..(MAX_FRAMES_IN_FLIGHT - 1) |->
        [buffer |-> k, range |-> TileBufEntries(tx, ty)]]

UNDEFINED == "VK_IMAGE_LAYOUT_UNDEFINED"
DEPTH_ATTACHMENT == "VK_IMAGE_LAYOUT_DEPTH_STENCIL_ATTACHMENT_OPTIMAL"
SHADER_READ_ONLY == "VK_IMAGE_LAYOUT_SHADER_READ_ONLY_OPTIMAL"

\* DebugWindow::draw: the tile grid shown in the debug window
debug_window_tiles(extent) ==
    [tileX |-> (extent.width + 15) \div 16,
     tileY |-> (extent.height + 15) \div 16]

\* The culling kernel, one workgroup per tile (spec 4.4): of the `lights`
\* light indices that intersect the tile it keeps the first
\* MAX_LIGHTS_PER_TILE, stores their number in the first entry of the tile's
\* slot of the tile light buffer and the indices in the entries after it.
cull_tile(slot, tile, lights) ==
    LET base == tile * (1 + MAX_LIGHTS_PER_TILE)
        count == IF lights > MAX_LIGHTS_PER_TILE THEN MAX_LIGHTS_PER_TILE
                 ELSE lights
    IN  [slot |-> slot, tile |-> tile, lights |-> lights, count |-> count,
         offsets |-> {base} \cup {base + 1 + k : k \in 0..(count - 1)}]

NoCull == [slot |-> -1, tile |-> -1, lights |-> 0, count |-> 0, offsets |-> {}]

\* The resolution-dependent state as one record
FrameResources ==
    [swapchainExtent |-> swapchainExtent_,
     tileCountX |-> tileCountX_, tileCountY |-> tileCountY_,
     tileLightSSBOs |-> tileLightSSBOs_,
     lightDescriptorSets |-> lightDescriptorSets_,
     depthLayout |-> depthLayout]

\* variant: the swapchain and the depth image are recreated, the tile light
\* buffers and their descriptor sets are kept
recreate_swapchain_keep_tiles(R, extent) ==
    [R EXCEPT !.swapchainExtent = extent, !.depthLayout = UNDEFINED]

\* recreate_swapchain once vkDeviceWaitIdle has returned: create_swapchain
\* takes the surface's extent, create_depth_resources makes a new depth
\* image, then the light buffers and light descriptor sets are recreated.
recreate_swapchain(R, extent) ==
    LET lb == create_light_buffers(extent)
    IN  [swapchainExtent |-> extent,
         tileCountX |-> lb.tileCountX, tileCountY |-> lb.tileCountY,
         tileLightSSBOs |-> lb.tileLightSSBOs,
         lightDescriptorSets |->
             create_light_descriptor_sets(lb.tileCountX, lb.tileCountY),
         depthLayout |-> UNDEFINED]

\* Extents the surface reports at a recreation while frames are rendered
FrameSizes ==
    {Extent(TILE_SIZE, TILE_SIZE), Extent(TILE_SIZE + 1, 2 * TILE_SIZE + 1)}

\* Extent of the surface when the renderer is constructed
StartSizes == {Extent(TILE_SIZE, TILE_SIZE)}

\* Any extent of at least one pixel each way, up to the bound
ScreenSizes == {Extent(w, h) : w \in 1..MaxScreen, h \in 1..MaxScreen}

\* ------------------------------------------------------------------------
\* Command recording (vkCmd* calls, in the order the code issues them)
\* ------------------------------------------------------------------------
\* One recorded command. obj: the pipeline / render pass / descriptor set
\* array / image it names; i: frame slot, mesh position or material index;
\* x, y: set number and handle, dispatch dimensions or extent; old, new:
\* declared depth-image layouts; actual: layout of depthImage_ when it runs.
Command(op, obj, i, x, y, old, new) ==
    [op |-> op, obj |-> obj, i |-> i, x |-> x, y |-> y,
     old |-> old, new |-> new, actual |-> ""]

Cmd(op, obj, i, x, y) == Command(op, obj, i, x, y, "", "")

\* the depth-only pass instance: framebuffer of depthImage_, initialLayout
\* UNDEFINED, finalLayout DEPTH_STENCIL_ATTACHMENT_OPTIMAL, loadOp CLEAR
BeginDepthOnlyPass(extent) ==
    Command("BeginRenderPass", "depthOnlyRenderPass_", -1,
            extent.width, extent.height, UNDEFINED, DEPTH_ATTACHMENT)

\* the per-mesh commands of the prepass for meshes j, j+1, ...
RECURSIVE prepass_mesh_commands(_, _)
prepass_mesh_commands(meshes, j) ==
    IF j >= Len(meshes) THEN <<>>
    ELSE <<Cmd("PushConstants", "transform", j, 0, 0),
           Cmd("BindVertexBuffers", "vertexBuffer", j,
               At(meshes, j).id[1], At(meshes, j).id[2]),
           Cmd("BindIndexBuffer", "indexBuffer", j,
               At(meshes, j).id[1], At(meshes, j).id[2]),
           Cmd("DrawIndexed", "mesh", j, 0, 0)>>
         \o prepass_mesh_commands(meshes, j + 1)

\* draw_depth_prepass(cmd)
draw_depth_prepass(meshes, cur, extent) ==
    <<BeginDepthOnlyPass(extent),
      Cmd("SetViewport", "", -1, extent.width, extent.height),
      Cmd("SetScissor", "", -1, extent.width, extent.height),
      Cmd("BindPipeline", "depthPrepassPipeline_", -1, 0, 0),
      Cmd("SetCullMode", "", -1, 0, 0),
      Cmd("SetFrontFace", "", -1, 0, 0),
      Cmd("BindDescriptorSets", "frameDescriptorSets_", cur, 0, 0)>>
    \o prepass_mesh_commands(meshes, 0)
    \o <<Cmd("EndRenderPass", "depthOnlyRenderPass_", -1, 0, 0)>>

\* variant: with the prepass skipped nothing is recorded in its place
depth_skip_no_clear(extent) == <<>>

\* debugSkipDepthPrepass_: the depth-only pass is begun and ended at once
depth_skip_clear(extent) ==
    <<BeginDepthOnlyPass(extent),
      Cmd("EndRenderPass", "depthOnlyRenderPass_", -1, 0, 0)>>

\* step 2: depth attachment -> shader read, late fragment tests -> compute
DepthToShaderRead ==
    Command("PipelineBarrier", "depthImage_", -1, 0, 0,
            DEPTH_ATTACHMENT, SHADER_READ_ONLY)

\* variant: every slot's dispatch writes the tile light buffer of slot 0
light_cull_commands_slot0(cur, tx, ty) ==
    <<Cmd("BindPipeline", "lightCullPipeline_", -1, 0, 0),
      Cmd("BindDescriptorSets", "computeSets", 0, 0, 2),
      Cmd("Dispatch", "tileLightSSBOs_", 0, tx, ty)>>

\* step 3: light culling dispatch over the tile grid, frame and light sets
\* of the current slot bound at sets 0 and 1
light_cull_commands(cur, tx, ty) ==
    <<Cmd("BindPipeline", "lightCullPipeline_", -1, 0, 0),
      Cmd("BindDescriptorSets", "computeSets", cur, 0, 2),
      Cmd("Dispatch", "tileLightSSBOs_", cur, tx, ty)>>

\* step 4: compute writes -> fragment reads, depth back to attachment
ComputeToFragment ==
    Command("PipelineBarrier", "memory+depthImage_", -1, 0, 0,
            SHADER_READ_ONLY, DEPTH_ATTACHMENT)

\* step 5: the main pass is begun: depth initialLayout and finalLayout are
\* DEPTH_STENCIL_ATTACHMENT_OPTIMAL
main_pass_begin(extent) ==
    <<Command("BeginRenderPass", "renderPass_", -1,
              extent.width, extent.height, DEPTH_ATTACHMENT, DEPTH_ATTACHMENT),
      Cmd("SetViewport", "", -1, extent.width, extent.height),
      Cmd("SetScissor", "", -1, extent.width, extent.height)>>

\* variant: the culling dispatch is recorded before the depth barrier
begin_frame_commands_dispatch_first(skip, meshes, cur, extent, tx, ty) ==
    (IF skip THEN depth_skip_clear(extent)
     ELSE draw_depth_prepass(meshes, cur, extent))
    \o light_cull_commands(cur, tx, ty)
    \o <<DepthToShaderRead>>
    \o <<ComputeToFragment>>
    \o main_pass_begin(extent)

\* What begin_frame records after vkBeginCommandBuffer
begin_frame_commands(skip, meshes, cur, extent, tx, ty) ==
    (IF skip THEN depth_skip_clear(extent)
     ELSE draw_depth_prepass(meshes, cur, extent))
    \o <<DepthToShaderRead>>
    \o light_cull_commands(cur, tx, ty)
    \o <<ComputeToFragment>>
    \o main_pass_begin(extent)

\* the per-mesh commands of draw_scene for meshes j, j+1, ...: the material
\* set is bound only when materialIndex < materials_.size()
RECURSIVE scene_mesh_commands(_, _, _)
scene_mesh_commands(meshes, materials, j) ==
    IF j >= Len(meshes) THEN <<>>
    ELSE LET m == At(meshes, j).materialIndex
         IN  <<Cmd("PushConstants", "transform", j, 0, 0)>>
             \o (IF m < Len(materials)
                 THEN <<Cmd("BindDescriptorSets", "materials_", m, 1,
                            At(materials, m).descriptorSet)>>
                 ELSE <<>>)
             \o <<Cmd("BindVertexBuffers", "vertexBuffer", j,
                      At(meshes, j).id[1], At(meshes, j).id[2]),
                  Cmd("BindIndexBuffer", "indexBuffer", j,
                      At(meshes, j).id[1], At(meshes, j).id[2]),
                  Cmd("DrawIndexed", "mesh", j, 0, 0)>>
             \o scene_mesh_commands(meshes, materials, j + 1)

\* the PBR pipeline with the frame set (set 0) and the light set (set 2)
pbr_bind_commands(cur) ==
    <<Cmd("BindPipeline", "pbrPipeline_", -1, 0, 0),
      Cmd("SetCullMode", "", -1, 0, 0),
      Cmd("SetFrontFace", "", -1, 0, 0),
      Cmd("BindDescriptorSets", "frameDescriptorSets_", cur, 0, 0),
      Cmd("BindDescriptorSets", "lightDescriptorSets_", cur, 2, 0)>>

\* the heatmap overlay: a full-screen triangle
heatmap_commands(cur) ==
    <<Cmd("BindPipeline", "heatmapPipeline_", -1, 0, 0),
      Cmd("BindDescriptorSets", "frameDescriptorSets_", cur, 0, 0),
      Cmd("BindDescriptorSets", "lightDescriptorSets_", cur, 1, 0),
      Cmd("Draw", "heatmap", -1, 3, 0)>>

\* the light wireframe overlay
debug_line_commands(cur, vertexCount) ==
    <<Cmd("BindPipeline", "debugLinePipeline_", -1, 0, 0),
      Cmd("BindDescriptorSets", "frameDescriptorSets_", cur, 0, 0),
      Cmd("BindVertexBuffers", "debugLineVertexBuffers_", cur, 0, 0),
      Cmd("Draw", "debugLines", -1, vertexCount, 0)>>

\* variant: the heatmap is recorded before the meshes
draw_scene_heatmap_first(meshes, materials, cur, showHeatmap, showDebugLines, vertexCount) ==
    pbr_bind_commands(cur)
    \o (IF showHeatmap THEN heatmap_commands(cur) ELSE <<>>)
    \o scene_mesh_commands(meshes, materials, 0)
    \o (IF showDebugLines /\ vertexCount > 0
        THEN debug_line_commands(cur, vertexCount) ELSE <<>>)

\* draw_scene(cmd)
draw_scene(meshes, materials, cur, showHeatmap, showDebugLines, vertexCount) ==
    pbr_bind_commands(cur)
    \o scene_mesh_commands(meshes, materials, 0)
    \o (IF showHeatmap THEN heatmap_commands(cur) ELSE <<>>)
    \o (IF showDebugLines /\ vertexCount > 0
        THEN debug_line_commands(cur, vertexCount) ELSE <<>>)

\* Layout of depthImage_ after the commands have run, from layout L0
LayoutAfter(cmds, L0) ==
    LET moves == {j \in DOMAIN cmds : cmds[j].new # ""}
    IN  IF moves = {} THEN L0
        ELSE cmds[CHOOSE j \in moves : \A k \in moves : k <= j].new

\* The commands with the layout depthImage_ has when each one runs
WithActualLayout(cmds, L0) ==
    [j \in DOMAIN cmds |->
        [cmds[j] EXCEPT !.actual = LayoutAfter(SubSeq(cmds, 1, j - 1), L0)]]

\* The dimensions of the light-culling dispatch among the commands
DispatchDims(cmds) ==
    LET j == CHOOSE k \in DOMAIN cmds : cmds[k].op = "Dispatch"
    IN  <<cmds[j].x, cmds[j].y>>

\* Buffers and images the GPU writes when it runs the commands: the depth
\* image (both render passes clear and write it) and the tile light buffer
\* of the slot bound for the dispatch
\* Handles of table-owned objects the commands were recorded with: the
\* vertex and index buffers bound for the draws (x, y: the mesh they belong
\* to), and the pool of each material descriptor set bound
GpuUses(cmds) ==
    {<<cmds[j].obj, cmds[j].x, cmds[j].y>> :
        j \in {k \in DOMAIN cmds :
                  cmds[k].op \in {"BindVertexBuffers", "BindIndexBuffer"}}}
    \cup {PoolHandle(cmds[j].y) :
        j \in {k \in DOMAIN cmds : cmds[k].op = "BindDescriptorSets"
                                    /\ cmds[k].obj = "materials_"}}

GpuWrites(cmds) ==
    {<<"depthImage_", 0>> :
        j \in {k \in DOMAIN cmds : cmds[k].op = "BeginRenderPass"}}
    \cup {<<"tileLightSSBOs_", cmds[j].i>> :
        j \in {k \in DOMAIN cmds : cmds[k].op = "Dispatch"}}

\* ------------------------------------------------------------------------
\* Initial state: Renderer::init
\* ------------------------------------------------------------------------
NoAsset == [meshes |-> <<>>, materials |-> <<>>, ntex |-> 0]

NoCtx == [slot |-> -1]

Slots == 0..(MAX_FRAMES_IN_FLIGHT - 1)

OpRecord(op, a, meshIdx, texOffset, matOffset, rm, rt) ==
    [op |-> op, asset |-> a, meshIdx |-> meshIdx,
     texOffset |-> texOffset, matOffset |-> matOffset,
     removedMatIndices |-> rm, removedTexIndices |-> rt,
     texCand |-> {}, texRef |-> {},
     framesSubmitted |-> \E k \in Slots : commandBuffers_[k] \notin {"initial", "recording"}]

\* What unload_scene destroys: every mesh's buffers, every material's
\* factor buffer, every scene texture, then the pool.
unload_scene_destroys(T, pool) ==
    [j \in 1..(2 * Len(T.meshes)) |->
        IF j % 2 = 1 THEN VertexBufferHandle(T.meshes[(j + 1) \div 2])
        ELSE IndexBufferHandle(T.meshes[j \div 2])]
    \o destroy_factor_buffers(T.materials, [j \in 1..Len(T.materials) |-> j - 1])
    \o [j \in 1..Len(T.textures) |-> TextureHandle(T.textures[j].id)]
    \o destroy_pool(pool)

\* What cleanup destroys of the scene: every mesh's buffers, every material's
\* factor buffer, every scene texture, the two default textures, the pool.
cleanup_destroys(T, pool) ==
    unload_scene_destroys(T, VK_NULL_HANDLE)
    \o <<TextureHandle(defaultWhite_.id), TextureHandle(defaultNormal_.id)>>
    \o destroy_pool(pool)

\* load_scene: glTF scene plus the cube, a fresh pool, a set per material
load_scene(a, op, nxt) ==
    LET scene == add_cube_to_scene(load_gltf(a, op), op)
    IN  [meshes |-> scene.meshes, textures |-> scene.textures,
         materials |-> create_material_descriptors(scene.materials, nxt),
         pool |-> nxt, nextPool |-> nxt + 1,
         maxSets |-> create_material_descriptor_pool(Len(scene.materials))]

\* load_scene_empty: the cube alone
load_scene_empty(op, nxt) ==
    LET scene == add_cube_to_scene(EmptyScene, op)
    IN  [meshes |-> scene.meshes, textures |-> scene.textures,
         materials |-> create_material_descriptors(scene.materials, nxt),
         pool |-> nxt, nextPool |-> nxt + 1,
         maxSets |-> create_material_descriptor_pool(Len(scene.materials))]

\* create_sync_objects: fences start signaled; nothing is in flight
\* ------------------------------------------------------------------------
\* Lights: LightEnvironment, pack_gpu_lights, the FrameUBO
\* ------------------------------------------------------------------------
\* A LightEnvironment, by the sizes of its three vectors
LightEnvironment(nd, np, ns) == [directionals |-> nd, points |-> np, spots |-> ns]

\* directionals.size() + points.size() + spots.size()
total_light_count(lights) == lights.directionals + lights.points + lights.spots

Directional == 0
Point == 1
Spot == 2

\* pack_gpu_lights: one GPULight per light, the directionals first, then the
\* points, then the spots; a GPULight is given by its type tag
pack_gpu_lights(lights) ==
    [i \in 1..total_light_count(lights) |->
        IF i <= lights.directionals THEN Directional
        ELSE IF i <= lights.directionals + lights.points THEN Point
        ELSE Spot]

\* lightBufSize of create_light_buffers, in GPULight entries
LightBufEntries == MAX_LIGHTS

\* variant: the count is not clamped
CapCountNone(count) == count

\* if (count > MAX_LIGHTS) count = MAX_LIGHTS
CapCount(count) == IF count > MAX_LIGHTS THEN MAX_LIGHTS ELSE count

\* What update_uniforms writes: the light and tile fields of the FrameUBO,
\* and the number of GPULight entries copied to the start of the light buffer.
update_uniforms(lights, tx, ty, extent) ==
    LET gpuLights == pack_gpu_lights(lights)
        count == CapCount(Len(gpuLights))
    IN  [lightCount |-> total_light_count(lights),
         tileCountX |-> tx, tileCountY |-> ty,
         screenWidth |-> extent.width, screenHeight |-> extent.height,
         copied |-> count]

NoUniforms == [lightCount |-> 0, tileCountX |-> 0, tileCountY |-> 0,
               screenWidth |-> 0, screenHeight |-> 0, copied |-> 0]

\* Light environments up to MaxExtraLights lights beyond MAX_LIGHTS
LightEnvs ==
    {LightEnvironment(nd, np, ns) :
        nd \in 0..1, ns \in 0..1,
        np \in {0, 1} \cup ((MAX_LIGHTS - 2)..(MAX_LIGHTS + MaxExtraLights))}

\* Light environments of an ordinary frame: none, or one point light
FrameLights == {LightEnvironment(0, 0, 0), LightEnvironment(0, 1, 0)}

InitFrame ==
    /\ currentFrame_ = 0
    /\ inFlightFences_ = [k \in Slots |-> TRUE]
    /\ gpuQueue = <<>>
    /\ commandBuffers_ = [k \in Slots |-> "initial"]
    /\ pc = "call"
    /\ ctx = NoCtx
    /\ framebufferResized_ = FALSE
    /\ frameResult = "none"
    /\ lastWrite = [by |-> "none", res |-> {}, slot |-> -1, inFrame |-> FALSE,
                    data |-> NoUniforms]
    /\ hazards = {}
    /\ cmdStream = <<>>
    /\ debugLineVertexCount_ = 0

\* create_swapchain, create_depth_resources, create_light_buffers and
\* create_light_descriptor_sets for a surface of the given extent
InitResources(extent) ==
    LET lb == create_light_buffers(extent)
    IN  /\ swapchainExtent_ = extent
        /\ tileCountX_ = lb.tileCountX
        /\ tileCountY_ = lb.tileCountY
        /\ tileLightSSBOs_ = lb.tileLightSSBOs
        /\ lightDescriptorSets_ =
               create_light_descriptor_sets(lb.tileCountX, lb.tileCountY)
        /\ depthLayout = UNDEFINED
        /\ lastCull = NoCull

InitScene ==
    /\ \E a \in InitAssets :
          LET r == load_scene(a, 0, 1)
          IN  /\ meshes_ = r.meshes
              /\ materials_ = r.materials
              /\ textures_ = r.textures
              /\ materialDescriptorPool_ = r.pool
              /\ nextPool = r.nextPool
              /\ poolMaxSets = r.maxSets
              /\ lastOp = OpRecord("load_scene", a, -1, 0, 0, <<>>, <<>>)
    /\ destroyedTex = {}
    /\ destroyed = {}
    /\ destroyedTwice = {}
    /\ opCount = 0

\* A default-constructed SceneGraph
NoGraphOp == [op |-> "none", nodeIdx |-> -1, nodes |-> <<>>, roots |-> <<>>]

InitSceneGraph ==
    /\ nodes = <<>>
    /\ roots = <<>>
    /\ lastGraphOp = NoGraphOp

Init ==
    /\ InitFrame
    /\ InitScene
    /\ InitSceneGraph
    /\ \E e \in StartSizes : InitResources(e)

\* ------------------------------------------------------------------------
\* Scene operations (called between other calls of the single CPU thread)
\* ------------------------------------------------------------------------
\* variant: the call does not wait for the device
DeviceIdleSkipped == TRUE

\* vkDeviceWaitIdle returns once every submission has completed
DeviceIdle == gpuQueue = <<>>

CanCallScene == pc = "call" /\ opCount < MaxSceneOps

LoadScene(a) ==
    /\ CanCallScene
    /\ \E r \in {load_scene(a, opCount + 1, nextPool)} :
           /\ meshes_' = r.meshes
           /\ materials_' = r.materials
           /\ textures_' = r.textures
           /\ materialDescriptorPool_' = r.pool
           /\ nextPool' = r.nextPool
           /\ poolMaxSets' = r.maxSets
    /\ lastOp' = OpRecord("load_scene", a, -1, 0, 0, <<>>, <<>>)
    /\ opCount' = opCount + 1
    /\ UNCHANGED <<destroyedTex, destroyed, destroyedTwice, frameVars>>
    /\ UNCHANGED graphVars

LoadSceneEmpty ==
    /\ CanCallScene
    /\ LET r == load_scene_empty(opCount + 1, nextPool)
       IN  /\ meshes_' = r.meshes
           /\ materials_' = r.materials
           /\ textures_' = r.textures
           /\ materialDescriptorPool_' = r.pool
           /\ nextPool' = r.nextPool
           /\ poolMaxSets' = r.maxSets
    /\ lastOp' = OpRecord("load_scene_empty", NoAsset, -1, 0, 0, <<>>, <<>>)
    /\ opCount' = opCount + 1
    /\ UNCHANGED <<destroyedTex, destroyed, destroyedTwice, frameVars>>
    /\ UNCHANGED graphVars

UnloadScene ==
    /\ CanCallScene
    /\ DeviceIdle
    /\ meshes_' = <<>>
    /\ materials_' = <<>>
    /\ destroyedTex' = destroyedTex \cup {textures_[j].id : j \in DOMAIN textures_}
    /\ textures_' = <<>>
    /\ materialDescriptorPool_' = VK_NULL_HANDLE
    /\ poolMaxSets' = 0
    /\ LET d == Destroy(unload_scene_destroys(Tables, materialDescriptorPool_),
                        destroyed, destroyedTwice)
       IN  destroyed' = d.destroyed /\ destroyedTwice' = d.twice
    /\ lastOp' = OpRecord("unload_scene", NoAsset, -1, 0, 0, <<>>, <<>>)
    /\ opCount' = opCount + 1
    /\ UNCHANGED <<nextPool, frameVars>>
    /\ UNCHANGED graphVars

\* import_gltf(path): vkDeviceWaitIdle, then load_gltf returns a scene or
\* throws (missing file, decode failure)
ImportGltf(a, fails) ==
    /\ CanCallScene
    /\ DeviceIdle
    /\ LET loaded == IF fails THEN LoadFailed
                     ELSE Loaded(load_gltf(a, opCount + 1))
       IN  \E r \in {import_gltf(Tables, materialDescriptorPool_, nextPool, loaded)} :
           /\ meshes_' = r.meshes
           /\ textures_' = r.textures
           /\ materials_' = r.materials
           /\ materialDescriptorPool_' = r.pool
           /\ nextPool' = r.nextPool
           /\ poolMaxSets' = IF r.maxSets < 0 THEN poolMaxSets ELSE r.maxSets
           /\ \E d \in {Destroy(r.destroys, destroyed, destroyedTwice)} :
                  destroyed' = d.destroyed /\ destroyedTwice' = d.twice
           /\ lastOp' = IF r.threw
                        THEN OpRecord("import_failed", NoAsset, -1, 0, 0, <<>>, <<>>)
                        ELSE OpRecord("import_gltf", a, -1, Len(textures_),
                                      Len(materials_), <<>>, <<>>)
    /\ opCount' = opCount + 1
    /\ UNCHANGED <<destroyedTex, frameVars>>
    /\ UNCHANGED graphVars

DeleteMesh(meshIdx) ==
    /\ CanCallScene
    /\ \E r \in {delete_mesh(Tables, materialDescriptorPool_, nextPool, meshIdx)} :
          /\ ~r.noop => DeviceIdle
          /\ meshes_' = r.meshes
          /\ textures_' = r.textures
          /\ materials_' = r.materials
          /\ materialDescriptorPool_' = r.pool
          /\ nextPool' = r.nextPool
          /\ destroyedTex' = destroyedTex \cup r.destroyedTex
          /\ poolMaxSets' = IF r.maxSets < 0 THEN poolMaxSets ELSE r.maxSets
          /\ \E d \in {Destroy(r.destroys, destroyed, destroyedTwice)} :
                destroyed' = d.destroyed /\ destroyedTwice' = d.twice
          /\ lastOp' = IF r.noop
                       THEN OpRecord("delete_noop", NoAsset, meshIdx, 0, 0, <<>>, <<>>)
                       ELSE [OpRecord("delete_mesh", NoAsset, meshIdx, 0, 0,
                                      r.removedMatIndices, r.removedTexIndices)
                             EXCEPT !.texCand = r.texCand,
                                    !.texRef = r.texRef]
    /\ opCount' = opCount + 1
    /\ UNCHANGED frameVars
    /\ UNCHANGED graphVars

\* cleanup: the renderer is torn down; nothing is called after it
Cleanup ==
    /\ pc = "call"
    /\ ctx = NoCtx
    /\ DeviceIdle
    /\ \E d \in {Destroy(cleanup_destroys(Tables, materialDescriptorPool_),
                          destroyed, destroyedTwice)} :
          destroyed' = d.destroyed /\ destroyedTwice' = d.twice
    /\ destroyedTex' = destroyedTex \cup {textures_[j].id : j \in DOMAIN textures_}
                                    \cup {defaultWhite_.id, defaultNormal_.id}
    /\ lastOp' = OpRecord("cleanup", NoAsset, -1, 0, 0, <<>>, <<>>)
    /\ pc' = "cleaned"
    /\ UNCHANGED <<meshes_, materials_, textures_, materialDescriptorPool_, nextPool,
                   poolMaxSets, opCount, tileVars, recVars, currentFrame_,
                   inFlightFences_, gpuQueue, commandBuffers_, ctx,
                   framebufferResized_, frameResult, lastWrite, hazards, graphVars>>

NextScene ==
    \/ \E a \in Assets : LoadScene(a)
    \/ LoadSceneEmpty
    \/ UnloadScene
    \/ \E a \in Assets : ImportGltf(a, FALSE)
    \/ ImportGltf(NoAsset, TRUE)
    \/ \E i \in 0..Len(meshes_) : DeleteMesh(i)

SpecScene == Init /\ [][NextScene]_vars

\* ------------------------------------------------------------------------
\* Frame scheduler: begin_frame / end_frame and the GPU
\* ------------------------------------------------------------------------
\* A submission that uses slot k (its command buffer and, through the
\* slot's descriptor sets, its uniform, light and debug-line buffers) has
\* been queued and has not completed.
InFlight(k) == \E j \in DOMAIN gpuQueue : gpuQueue[j].cmd = k

\* variant: the index is left where it is
AdvanceStuck(f) == f

\* currentFrame_ = (currentFrame_ + 1) % MAX_FRAMES_IN_FLIGHT
Advance(f) == (f + 1) % MAX_FRAMES_IN_FLIGHT

\* The CPU writes `data` to per-frame resources `res` of slot k.
\* `inFrame`: the caller holds the FrameContext of a begun, not yet ended frame.
CpuWriteData(by, res, k, inFrame, data) ==
    /\ lastWrite' = [by |-> by, res |-> res, slot |-> k, inFrame |-> inFrame,
                     data |-> data]
    /\ hazards' = IF InFlight(k)
                  THEN hazards \cup {[by |-> by, res |-> r, inFrame |-> inFrame] :
                                        r \in res}
                  ELSE hazards

\* A CPU write whose content the model does not follow
CpuWrite(by, res, k, inFrame) == CpuWriteData(by, res, k, inFrame, NoUniforms)

\* begin_frame is entered; it blocks in vkWaitForFences
BeginFrameCall ==
    /\ pc = "call"
    /\ pc' = "bf_wait"
    /\ UNCHANGED <<sceneVars, tileVars, recVars, currentFrame_, inFlightFences_, gpuQueue,
                   commandBuffers_, ctx, framebufferResized_, frameResult,
                   lastWrite, hazards>>

\* variant: begin_frame does not wait for the fence
FenceWaitSkipped(f) == TRUE

\* what vkWaitForFences(inFlightFences_[currentFrame_]) waits for
FenceWaitDone(f) == inFlightFences_[f]

\* vkWaitForFences returns: the fence of the current slot is signaled
BeginFrameWait ==
    /\ pc = "bf_wait"
    /\ FenceWaitDone(currentFrame_)
    /\ pc' = "bf_acquire"
    /\ UNCHANGED <<sceneVars, tileVars, recVars, currentFrame_, inFlightFences_, gpuQueue,
                   commandBuffers_, ctx, framebufferResized_, frameResult,
                   lastWrite, hazards>>

\* variant: the fence is never reset, it stays signaled
ResetFenceMissing(fences, k) == fences

\* vkResetFences(inFlightFences_[k])
ResetFence(fences, k) == [fences EXCEPT ![k] = FALSE]

AcquireResults == {"VK_SUCCESS", "VK_SUBOPTIMAL_KHR", "VK_ERROR_OUT_OF_DATE_KHR"}

\* variant: the fence is reset before the image is acquired, whatever the
\* acquire returns
fence_after_acquire_reset_first(fences, k, result) == ResetFence(fences, k)

\* The fences when vkAcquireNextImageKHR has returned: begin_frame returns
\* on VK_ERROR_OUT_OF_DATE_KHR before it reaches vkResetFences
fence_after_acquire(fences, k, result) ==
    IF result = "VK_ERROR_OUT_OF_DATE_KHR" THEN fences ELSE ResetFence(fences, k)

\* vkAcquireNextImageKHR returns. Stale surface: recreate_swapchain and
\* "no frame". Otherwise the fence is reset, the command buffer is reset and
\* recorded (prepass, culling dispatch, start of the shading pass).
BeginFrameAcquire(result, skipPrepass) ==
    /\ pc = "bf_acquire"
    /\ inFlightFences_' = fence_after_acquire(inFlightFences_, currentFrame_, result)
    /\ IF result = "VK_ERROR_OUT_OF_DATE_KHR"
       THEN /\ pc' = "bf_recreate"
            /\ UNCHANGED <<commandBuffers_, ctx, frameResult,
                           lastWrite, hazards, depthLayout, cmdStream>>
       ELSE /\ commandBuffers_' = [commandBuffers_ EXCEPT ![currentFrame_] = "recording"]
            /\ CpuWrite("begin_frame", {"commandBuffer"}, currentFrame_, TRUE)
            /\ \E cmds \in {begin_frame_commands(skipPrepass, meshes_,
                                                   currentFrame_, swapchainExtent_,
                                                   tileCountX_, tileCountY_)} :
                   /\ cmdStream' = WithActualLayout(cmds, depthLayout)
                   /\ depthLayout' = LayoutAfter(cmds, depthLayout)
            /\ ctx' = [slot |-> currentFrame_]
            /\ frameResult' = "frame"
            /\ pc' = "call"
    /\ UNCHANGED <<sceneVars, tileVars, debugLineVertexCount_, currentFrame_,
                   gpuQueue, framebufferResized_>>

\* recreate_swapchain inside begin_frame: vkDeviceWaitIdle, rebuild, return
\* std::nullopt. currentFrame_ is not advanced.
RecreateSwapchain(extent) ==
    LET R == recreate_swapchain(FrameResources, extent)
    IN  /\ swapchainExtent_' = R.swapchainExtent
        /\ tileCountX_' = R.tileCountX
        /\ tileCountY_' = R.tileCountY
        /\ tileLightSSBOs_' = R.tileLightSSBOs
        /\ lightDescriptorSets_' = R.lightDescriptorSets
        /\ depthLayout' = R.depthLayout
        /\ lastCull' = NoCull

BeginFrameRecreate(extent) ==
    /\ pc = "bf_recreate"
    /\ DeviceIdle
    /\ RecreateSwapchain(extent)
    /\ pc' = "call"
    /\ frameResult' = "nullopt"
    /\ UNCHANGED <<sceneVars, cmdStream, debugLineVertexCount_, currentFrame_, inFlightFences_, gpuQueue,
                   commandBuffers_, ctx, framebufferResized_, lastWrite, hazards>>

\* variant: the buffers of the other slot are written
UniformSlotOther(cur) == (cur + 1) % MAX_FRAMES_IN_FLIGHT

\* the slot whose mapped buffers update_uniforms writes
UniformSlot(cur) == cur

\* update_uniforms(camera, time, lights): memcpy of the FrameUBO into
\* uniformBuffersMapped_[currentFrame_] and, when there are lights, of the
\* packed lights into lightSSBOMapped_[currentFrame_]
UpdateUniforms(lights) ==
    /\ pc = "call"
    /\ LET u == update_uniforms(lights, tileCountX_, tileCountY_, swapchainExtent_)
       IN  CpuWriteData("update_uniforms",
                        IF u.copied > 0 THEN {"uniformBuffer", "lightSSBO"}
                        ELSE {"uniformBuffer"},
                        UniformSlot(currentFrame_), ctx # NoCtx, u)
    /\ UNCHANGED <<sceneVars, tileVars, recVars, currentFrame_, inFlightFences_, gpuQueue,
                   commandBuffers_, pc, ctx, framebufferResized_, frameResult>>

\* update_debug_lines: memcpy into debugLineVertexMapped_[currentFrame_]
\* when there is at least one vertex
UpdateDebugLines(hasVerts) ==
    /\ pc = "call"
    /\ IF hasVerts
       THEN CpuWrite("update_debug_lines", {"debugLineVertexBuffer"},
                     currentFrame_, ctx # NoCtx)
       ELSE UNCHANGED <<lastWrite, hazards>>
    /\ debugLineVertexCount_' = IF hasVerts THEN 2 ELSE 0
    /\ UNCHANGED <<sceneVars, tileVars, depthLayout, cmdStream, currentFrame_,
                   inFlightFences_, gpuQueue,
                   commandBuffers_, pc, ctx, framebufferResized_, frameResult>>

\* draw_scene(ctx.cmd): records the mesh draws into the frame's command buffer
DrawsRecorded ==
    Cardinality({j \in DOMAIN cmdStream :
                    cmdStream[j].op = "BindPipeline"
                    /\ cmdStream[j].obj = "pbrPipeline_"})

DrawScene(showHeatmap, showDebugLines) ==
    /\ pc = "call"
    /\ ctx # NoCtx
    /\ DrawsRecorded < MaxDrawsPerFrame
    /\ CpuWrite("draw_scene", {"commandBuffer"}, ctx.slot, TRUE)
    /\ cmdStream' = cmdStream \o draw_scene(meshes_, materials_, currentFrame_,
                                             showHeatmap, showDebugLines,
                                             debugLineVertexCount_)
    /\ UNCHANGED <<sceneVars, tileVars, depthLayout, debugLineVertexCount_,
                   currentFrame_, inFlightFences_, gpuQueue,
                   commandBuffers_, pc, ctx, framebufferResized_, frameResult>>

\* notify_resize
NotifyResize ==
    /\ pc = "call"
    /\ ~framebufferResized_
    /\ framebufferResized_' = TRUE
    /\ UNCHANGED <<sceneVars, tileVars, recVars, currentFrame_, inFlightFences_, gpuQueue,
                   commandBuffers_, pc, ctx, frameResult, lastWrite, hazards>>

PresentResults == {"VK_SUCCESS", "VK_SUBOPTIMAL_KHR", "VK_ERROR_OUT_OF_DATE_KHR"}

\* end_frame(ctx): the command buffer is ended and submitted with the fence
\* of the current slot, then presented. A stale surface or a pending resize
\* leads into recreate_swapchain; otherwise currentFrame_ advances.
EndFrame(result) ==
    /\ pc = "call"
    /\ ctx # NoCtx
    /\ commandBuffers_' = [commandBuffers_ EXCEPT ![ctx.slot] = "pending"]
    /\ LET cmds == cmdStream \o <<Cmd("EndRenderPass", "renderPass_", -1, 0, 0)>>
       IN  gpuQueue' = Append(gpuQueue, [cmd |-> ctx.slot, fence |-> currentFrame_,
                                         writes |-> GpuWrites(cmds),
                                         dispatch |-> DispatchDims(cmds),
                                         uses |-> GpuUses(cmds)])
    /\ cmdStream' = <<>>
    /\ ctx' = NoCtx
    /\ IF result # "VK_SUCCESS" \/ framebufferResized_
       THEN /\ framebufferResized_' = FALSE
            /\ pc' = "ef_recreate"
            /\ UNCHANGED currentFrame_
       ELSE /\ currentFrame_' = Advance(currentFrame_)
            /\ UNCHANGED <<pc, framebufferResized_>>
    /\ UNCHANGED <<sceneVars, tileVars, depthLayout, debugLineVertexCount_,
                   inFlightFences_, frameResult, lastWrite, hazards>>

\* recreate_swapchain inside end_frame returns after vkDeviceWaitIdle; then
\* currentFrame_ advances
EndFrameRecreate(extent) ==
    /\ pc = "ef_recreate"
    /\ DeviceIdle
    /\ RecreateSwapchain(extent)
    /\ currentFrame_' = Advance(currentFrame_)
    /\ pc' = "call"
    /\ UNCHANGED <<sceneVars, cmdStream, debugLineVertexCount_, inFlightFences_, gpuQueue, commandBuffers_, ctx,
                   framebufferResized_, frameResult, lastWrite, hazards>>

\* The GPU finishes the oldest submission and signals its fence
GpuComplete ==
    /\ gpuQueue # <<>>
    /\ inFlightFences_' = [inFlightFences_ EXCEPT ![Head(gpuQueue).fence] = TRUE]
    /\ commandBuffers_' = [commandBuffers_ EXCEPT ![Head(gpuQueue).cmd] = "executable"]
    /\ gpuQueue' = Tail(gpuQueue)
    /\ UNCHANGED <<sceneVars, tileVars, recVars, currentFrame_, pc, ctx, framebufferResized_,
                   frameResult, lastWrite, hazards>>

\* The GPU runs the culling workgroup of one tile of the oldest submission;
\* `lights` of the uploaded lights intersect that tile.
GpuCullTile(tile, lights) ==
    /\ gpuQueue # <<>>
    /\ tile < Head(gpuQueue).dispatch[1] * Head(gpuQueue).dispatch[2]
    /\ lights <= MAX_LIGHTS
    /\ lastCull' = cull_tile(Head(gpuQueue).cmd, tile, lights)
    /\ UNCHANGED <<sceneVars, recVars, swapchainExtent_, tileCountX_, tileCountY_,
                   tileLightSSBOs_, lightDescriptorSets_,
                   currentFrame_, inFlightFences_, gpuQueue, commandBuffers_,
                   pc, ctx, framebufferResized_, frameResult, lastWrite, hazards>>

NextFrame ==
    \/ BeginFrameCall
    \/ BeginFrameWait
    \/ \E r \in AcquireResults, skip \in BOOLEAN : BeginFrameAcquire(r, skip)
    \/ \E e \in FrameSizes : BeginFrameRecreate(e)
    \/ \E l \in FrameLights : UpdateUniforms(l)
    \/ \E b \in BOOLEAN : UpdateDebugLines(b)
    \/ \E h \in BOOLEAN, d \in BOOLEAN : DrawScene(h, d)
    \/ NotifyResize
    \/ \E r \in PresentResults : EndFrame(r)
    \/ \E e \in FrameSizes : EndFrameRecreate(e)
    \/ GpuComplete

SpecFrame == Init /\ [][NextFrame]_vars

\* The renderer constructed on a surface of any size, then resizes of the
\* window answered by begin_frame's stale-surface path.
InitTiles ==
    /\ InitFrame
    /\ InitScene
    /\ InitSceneGraph
    /\ \E e \in ScreenSizes : InitResources(e)

NextTiles ==
    \/ BeginFrameCall
    \/ BeginFrameWait
    \/ BeginFrameAcquire("VK_ERROR_OUT_OF_DATE_KHR", FALSE)
    \/ \E e \in FrameSizes : BeginFrameRecreate(e)

SpecTiles == InitTiles /\ [][NextTiles]_vars

\* Imports and deletions issued between the calls of the frame loop, while
\* submitted frames are still on the GPU.
NextExcl ==
    \/ \E a \in InitAssets : ImportGltf(a, FALSE)
    \/ ImportGltf(NoAsset, TRUE)
    \/ \E i \in 0..Len(meshes_) : DeleteMesh(i)
    \/ BeginFrameCall
    \/ BeginFrameWait
    \/ BeginFrameAcquire("VK_SUCCESS", FALSE)
    \/ EndFrame("VK_SUCCESS")
    \/ GpuComplete

SpecExcl == Init /\ [][NextExcl]_vars

\* Frames rendered at either extent while the GPU runs the culling kernel
\* with few, exactly MAX_LIGHTS_PER_TILE, or more lights on a tile.
InitCull ==
    /\ InitFrame
    /\ InitScene
    /\ InitSceneGraph
    /\ \E e \in FrameSizes : InitResources(e)

TileLightCounts == {0, 1} \cup ((MAX_LIGHTS_PER_TILE - 1)..MaxTileLights)

NextCull ==
    \/ BeginFrameCall
    \/ BeginFrameWait
    \/ BeginFrameAcquire("VK_SUCCESS", FALSE)
    \/ EndFrame("VK_SUCCESS")
    \/ \E t \in 0..(tileCountX_ * tileCountY_ - 1), n \in TileLightCounts :
          GpuCullTile(t, n)
    \/ GpuComplete

SpecCull == InitCull /\ [][NextCull]_vars

\* The scene operations on small assets, then cleanup
NextDestroy ==
    \/ LoadSceneEmpty
    \/ \E a \in InitAssets : ImportGltf(a, FALSE)
    \/ ImportGltf(NoAsset, TRUE)
    \/ \E i \in 0..Len(meshes_) : DeleteMesh(i)
    \/ UnloadScene
    \/ Cleanup

SpecDestroy == Init /\ [][NextDestroy]_vars

\* Frames with stale surfaces at acquire and at present, without drawing
NextSkip ==
    \/ BeginFrameCall
    \/ BeginFrameWait
    \/ \E r \in AcquireResults : BeginFrameAcquire(r, FALSE)
    \/ \E e \in StartSizes : BeginFrameRecreate(e)
    \/ NotifyResize
    \/ \E r \in PresentResults : EndFrame(r)
    \/ \E e \in StartSizes : EndFrameRecreate(e)
    \/ GpuComplete

\* The GPU completes what it was given; vkWaitForFences returns once the
\* fence is signaled; vkAcquireNextImageKHR returns; recreate_swapchain
\* returns once the device is idle (the window not being minimised).
SpecSkip ==
    /\ Init
    /\ [][NextSkip]_vars
    /\ WF_vars(GpuComplete)
    /\ WF_vars(BeginFrameWait)
    /\ WF_vars(\E r \in AcquireResults : BeginFrameAcquire(r, FALSE))
    /\ WF_vars(\E e \in StartSizes : BeginFrameRecreate(e))
    /\ WF_vars(\E e \in StartSizes : EndFrameRecreate(e))

\* Frames whose update_uniforms is handed any light environment
NextLights ==
    \/ BeginFrameCall
    \/ BeginFrameWait
    \/ BeginFrameAcquire("VK_SUCCESS", FALSE)
    \/ \E l \in LightEnvs : UpdateUniforms(l)
    \/ EndFrame("VK_SUCCESS")
    \/ GpuComplete

SpecLights == Init /\ [][NextLights]_vars

Next ==
    \/ NextScene
    \/ NextFrame
    \/ \E t \in 0..(tileCountX_ * tileCountY_ - 1), n \in TileLightCounts :
          GpuCullTile(t, n)
    \/ \E l \in LightEnvs : UpdateUniforms(l)
    \/ Cleanup

Spec == Init /\ [][Next]_vars

\* ========================================================================
\* Properties of the scene tables (checked under SpecScene)
\* ========================================================================
Ids(s) == {s[j].id : j \in DOMAIN s}

NoId == <<-1, -1>>

\* id of table entry i, NoId when i is not an index of the table
IdAt(s, i) == IF i \in 0..(Len(s) - 1) THEN At(s, i).id ELSE NoId

\* the entry of s with the given id
EntryOf(s, id) == s[CHOOSE j \in DOMAIN s : s[j].id = id]

DeleteStep == opCount' = opCount + 1 /\ lastOp'.op = "delete_mesh"

ImportStep == opCount' = opCount + 1 /\ lastOp'.op = "import_gltf"

ImportFailedStep == opCount' = opCount + 1 /\ lastOp'.op = "import_failed"

\* C1 -- Index invariant: in every state reached by load_scene,
\* load_scene_empty, import_gltf and delete_mesh on well-formed assets, every
\* mesh's materialIndex is an index of materials_ and every texture slot of
\* every material is -1 or an index of textures_.
IndexInvariant ==
    /\ \A j \in DOMAIN meshes_ :
          meshes_[j].materialIndex \in 0..(Len(materials_) - 1)
    /\ \A j \in DOMAIN materials_ : \A k \in 1..NumTexSlots :
          \/ materials_[j].tex[k] = -1
          \/ materials_[j].tex[k] \in 0..(Len(textures_) - 1)

\* A delete that removed a material, after an import, with meshes left that
\* reference textured materials.
IndexInvariantWitness ==
    /\ opCount >= 2
    /\ lastOp.op = "delete_mesh"
    /\ lastOp.removedMatIndices # <<>>
    /\ Len(meshes_) >= 2
    /\ \E j \in DOMAIN materials_ : \E k \in 1..NumTexSlots :
          materials_[j].tex[k] >= 0

\* C2 -- No dangling reference after delete: the material of every surviving
\* mesh is still in materials_, and every texture that material referenced
\* is still in textures_ and has not been destroyed.
NoDanglingAfterDelete ==
    [][DeleteStep =>
        \A j \in DOMAIN meshes_ :
            meshes_[j].id \in Ids(meshes_') =>
                /\ meshes_[j].materialIndex \in 0..(Len(materials_) - 1)
                /\ LET m == At(materials_, meshes_[j].materialIndex)
                   IN  /\ m.id \in Ids(materials_')
                       /\ \A k \in 1..NumTexSlots :
                             m.tex[k] >= 0 =>
                                 /\ IdAt(textures_, m.tex[k]) \in Ids(textures_')
                                 /\ IdAt(textures_, m.tex[k]) \notin destroyedTex']_vars

\* A delete removed a material whose texture a surviving material also uses:
\* the texture was a candidate (step 3) and is truly referenced (step 5).
NoDanglingWitness ==
    /\ lastOp.op = "delete_mesh"
    /\ lastOp.removedMatIndices # <<>>
    /\ lastOp.texCand \cap lastOp.texRef # {}
    /\ meshes_ # <<>>

\* indices of `pre` whose entry is gone from `post`
RemovedIdx(pre, post) ==
    {i \in 0..(Len(pre) - 1) : At(pre, i).id \notin Ids(post)}

\* idx reduced by the number of removed indices <= idx
ShiftedBy(removedSet, idx) ==
    idx - Cardinality({r \in removedSet : r <= idx})

\* C3 -- Reference preservation by content across delete: every surviving
\* mesh refers to the same material (by id) as before and every surviving
\* material's slot is -1 if it was -1 and otherwise the same texture (by
\* id); each index is the old one less the removed indices <= it.
ContentPreservedAcrossDelete ==
    [][DeleteStep =>
        /\ \A j \in DOMAIN meshes_' :
              /\ meshes_'[j].id \in Ids(meshes_)
              /\ LET pre == EntryOf(meshes_, meshes_'[j].id)
                 IN  /\ IdAt(materials_', meshes_'[j].materialIndex) # NoId
                     /\ IdAt(materials_', meshes_'[j].materialIndex)
                            = IdAt(materials_, pre.materialIndex)
                     /\ meshes_'[j].materialIndex
                            = ShiftedBy(RemovedIdx(materials_, materials_'),
                                        pre.materialIndex)
        /\ \A j \in DOMAIN materials_' :
              /\ materials_'[j].id \in Ids(materials_)
              /\ LET pre == EntryOf(materials_, materials_'[j].id)
                 IN  \A k \in 1..NumTexSlots :
                        IF pre.tex[k] < 0
                        THEN materials_'[j].tex[k] = -1 /\ pre.tex[k] = -1
                        ELSE /\ IdAt(textures_', materials_'[j].tex[k]) # NoId
                             /\ IdAt(textures_', materials_'[j].tex[k])
                                    = IdAt(textures_, pre.tex[k])
                             /\ materials_'[j].tex[k]
                                    = ShiftedBy(RemovedIdx(textures_, textures_'),
                                                pre.tex[k])]_vars

\* A delete after which a surviving mesh and a surviving material both had
\* their index lowered (a removed index lies below them), next to a -1 slot.
ContentPreservedWitness ==
    /\ lastOp.op = "delete_mesh"
    /\ \E j \in DOMAIN meshes_ : \E r \in Range(lastOp.removedMatIndices) :
          r <= meshes_[j].materialIndex
    /\ \E j \in DOMAIN materials_ : \E k, k2 \in 1..NumTexSlots :
          /\ materials_[j].tex[k2] = -1
          /\ \E r \in Range(lastOp.removedTexIndices) : r <= materials_[j].tex[k]

\* C4 -- Import offset correctness: every imported mesh's materialIndex is
\* its asset value plus the pre-import materials_.size(); every imported
\* material's slot is its asset value plus the pre-import textures_.size()
\* when non-negative and -1 otherwise.
ImportOffsetsCorrect ==
    [][ImportStep =>
        LET a == lastOp'.asset
            M == Len(meshes_)
            K == Len(materials_)
            T == Len(textures_)
        IN  /\ \A j \in DOMAIN a.meshes :
                  /\ M + j \in DOMAIN meshes_'
                  /\ meshes_'[M + j].materialIndex = a.meshes[j] + K
            /\ \A j \in DOMAIN a.materials :
                  /\ K + j \in DOMAIN materials_'
                  /\ \A k \in 1..NumTexSlots :
                        materials_'[K + j].tex[k] =
                            IF a.materials[j][k] >= 0
                            THEN a.materials[j][k] + T
                            ELSE -1]_vars

\* An import into non-empty tables of an asset with a mesh and a material
\* that has both a texture reference and a -1 slot.
ImportOffsetsWitness ==
    /\ lastOp.op = "import_gltf"
    /\ lastOp.texOffset > 0
    /\ lastOp.matOffset > 0
    /\ lastOp.asset.meshes # <<>>
    /\ \E j \in DOMAIN lastOp.asset.materials : \E k, k2 \in 1..NumTexSlots :
          lastOp.asset.materials[j][k] >= 0 /\ lastOp.asset.materials[j][k2] = -1

\* C5 -- Import does not disturb existing content: every pre-existing mesh,
\* material and texture keeps its index, materialIndex and texture
\* references, and no imported index denotes a pre-existing entry.
ImportLeavesExistingAlone ==
    [][ImportStep =>
        LET M == Len(meshes_)
            K == Len(materials_)
            T == Len(textures_)
        IN  /\ Len(meshes_') >= M /\ Len(materials_') >= K /\ Len(textures_') >= T
            /\ \A j \in 1..M : meshes_'[j] = meshes_[j]
            /\ \A j \in 1..K : /\ materials_'[j].id = materials_[j].id
                               /\ materials_'[j].tex = materials_[j].tex
            /\ \A j \in 1..T : textures_'[j] = textures_[j]
            /\ \A j \in (M + 1)..Len(meshes_') :
                  meshes_'[j].materialIndex >= K
            /\ \A j \in (K + 1)..Len(materials_') : \A k \in 1..NumTexSlots :
                  materials_'[j].tex[k] = -1 \/ materials_'[j].tex[k] >= T]_vars

\* A second asset with meshes and textures arrived in a scene that already
\* held meshes, materials and textures.
ImportLeavesExistingWitness ==
    /\ lastOp.op = "import_gltf"
    /\ lastOp.matOffset > 0
    /\ lastOp.texOffset > 0
    /\ Len(meshes_) > Len(lastOp.asset.meshes)
    /\ Len(lastOp.asset.meshes) > 0
    /\ lastOp.asset.ntex > 0

\* C6 -- Import appends exactly the imported counts: sizes M/K/T become
\* M+m / K+k / T+t; a 2-mesh/1-material/1-texture asset imported into a
\* 1/1/1 scene gives 3/2/2 and its material's texture reference is index 1.
ImportAppendsCounts ==
    [][ImportStep =>
        LET a == lastOp'.asset
            M == Len(meshes_)
            K == Len(materials_)
            T == Len(textures_)
        IN  /\ Len(meshes_') = M + Len(a.meshes)
            /\ Len(materials_') = K + Len(a.materials)
            /\ Len(textures_') = T + a.ntex
            /\ (/\ M = 1 /\ K = 1 /\ T = 1
                /\ Len(a.meshes) = 2 /\ Len(a.materials) = 1 /\ a.ntex = 1)
               => /\ Len(meshes_') = 3 /\ Len(materials_') = 2 /\ Len(textures_') = 2
                  /\ \A k \in 1..NumTexSlots :
                        a.materials[1][k] = 0 => materials_'[2].tex[k] = 1]_vars

\* The end-to-end scenario: the cube scene (1/1/1), then a 2/1/1 asset whose
\* material uses its texture.
ImportAppendsWitness ==
    /\ lastOp.op = "import_gltf"
    /\ lastOp.matOffset = 1 /\ lastOp.texOffset = 1
    /\ Len(lastOp.asset.meshes) = 2
    /\ Len(lastOp.asset.materials) = 1
    /\ lastOp.asset.ntex = 1
    /\ Len(meshes_) = 3 /\ Len(materials_) = 2 /\ Len(textures_) = 2
    /\ \E k \in 1..NumTexSlots : materials_[2].tex[k] = 1

\* C7 -- Import is atomic on asset failure: when load_gltf throws, the
\* failure reaches the caller and the three tables, every material's
\* binding and the binding pool are exactly as before the call.
ImportFailureAtomic ==
    [][ImportFailedStep =>
        /\ meshes_' = meshes_
        /\ materials_' = materials_
        /\ textures_' = textures_
        /\ materialDescriptorPool_' = materialDescriptorPool_]_vars

\* A failed import on a scene with meshes, materials with live bindings and
\* textures.
ImportFailureWitness ==
    /\ lastOp.op = "import_failed"
    /\ meshes_ # <<>>
    /\ textures_ # <<>>
    /\ materialDescriptorPool_ # VK_NULL_HANDLE
    /\ \A j \in DOMAIN materials_ :
          materials_[j].descriptorSet = materialDescriptorPool_

\* ========================================================================
\* Properties of the frame scheduler (checked under SpecFrame)
\* ========================================================================
\* C8 -- Frame slot non-overlap: begin_frame gets past vkWaitForFences for
\* slot k only with k's fence signaled, that is with no submission of k
\* still in flight; the command buffer of k is reset and recorded, and the
\* frame handed to the caller, only then.
FrameSlotNonOverlap ==
    /\ pc = "bf_acquire" => inFlightFences_[currentFrame_]
    /\ pc \in {"bf_acquire", "bf_recreate"} => ~InFlight(currentFrame_)
    /\ \A k \in Slots : commandBuffers_[k] = "recording" => ~InFlight(k)
    /\ ctx # NoCtx => ~InFlight(ctx.slot)

\* begin_frame is blocked: the slot's previous submission is still in flight
\* and its fence unsignaled.
FrameSlotBlockedWitness ==
    /\ pc = "bf_wait"
    /\ InFlight(currentFrame_)
    /\ ~inFlightFences_[currentFrame_]

\* C9 as stated -- whatever the order of the calls, no CPU write or reset
\* hits a per-frame resource of a slot with a submission in flight.
NoCpuWriteWhileInFlight == hazards = {}

\* C9 amended -- a write issued while the caller holds a begun frame
\* (between begin_frame returning a frame and end_frame), and begin_frame's
\* own reset of the command buffer, never hit a slot with a submission in
\* flight; the only writes that can are update_uniforms / update_debug_lines
\* issued outside a frame.
NoInFrameWriteWhileInFlight ==
    \A h \in hazards :
        /\ ~h.inFrame
        /\ h.by \in {"update_uniforms", "update_debug_lines"}

\* update_uniforms wrote the uniform and light buffers of the frame being
\* recorded while the other slot's submission was still in flight.
InFrameWriteWitness ==
    /\ lastWrite.by = "update_uniforms"
    /\ lastWrite.inFrame
    /\ lastWrite.res = {"uniformBuffer", "lightSSBO"}
    /\ gpuQueue # <<>>
    /\ ~InFlight(lastWrite.slot)

\* The state of a frame slot (spec 4.2), read off the program state.
SlotState(k) ==
    IF InFlight(k) THEN "Submitted"
    ELSE IF commandBuffers_[k] = "recording" THEN "Recording"
    ELSE IF pc \in {"bf_acquire", "bf_recreate"} /\ currentFrame_ = k THEN "Acquiring"
    ELSE "Idle"

CycleEdges ==
    {<<"Idle", "Acquiring">>, <<"Acquiring", "Recording">>,
     <<"Recording", "Submitted">>, <<"Submitted", "Idle">>}

SkipEdge == <<"Acquiring", "Idle">>

NeverRecordedWhileSubmitted ==
    \A k \in Slots : commandBuffers_[k] = "recording" => ~InFlight(k)

NeverSubmittedTwice ==
    \A i, j \in DOMAIN gpuQueue : i # j => gpuQueue[i].cmd # gpuQueue[j].cmd

\* C10 as stated -- a slot changes state only along
\* Idle -> Acquiring -> Recording -> Submitted -> Idle.
SlotCycleOnly ==
    [][\A k \in Slots :
          SlotState(k)' # SlotState(k) =>
              <<SlotState(k), SlotState(k)'>> \in CycleEdges]_vars

\* C10 amended -- a slot changes state only along the cycle or, when the
\* acquire reports a stale surface and begin_frame returns no frame, from
\* Acquiring back to Idle; it is never recorded while Submitted nor
\* submitted twice without an intervening fence wait.
SlotCycleOrSkip ==
    [][/\ \A k \in Slots :
             SlotState(k)' # SlotState(k) =>
                 <<SlotState(k), SlotState(k)'>> \in CycleEdges \cup {SkipEdge}
       /\ NeverRecordedWhileSubmitted'
       /\ NeverSubmittedTwice']_vars

\* begin_frame has just returned "no frame" on a slot that went round the
\* whole cycle before.
SlotSkipWitness ==
    /\ frameResult = "nullopt"
    /\ pc = "call"
    /\ commandBuffers_[currentFrame_] = "executable"
    /\ SlotState(currentFrame_) = "Idle"

\* end_frame returns to its caller: directly after a clean presentation, or
\* out of recreate_swapchain after a stale one / a pending resize.
EndFrameReturns ==
    \/ pc = "call" /\ ctx # NoCtx /\ ctx' = NoCtx /\ pc' = "call"
    \/ pc = "ef_recreate" /\ pc' = "call"

\* begin_frame returns "no frame" (stale surface at the acquire).
BeginFrameSkips == pc = "bf_recreate" /\ pc' = "call"

\* C11 as stated -- the frame index advances by one modulo
\* MAX_FRAMES_IN_FLIGHT after every frame attempt, a begin_frame that
\* reports a skipped frame included.
IndexAdvancesEveryAttempt ==
    [][(EndFrameReturns \/ BeginFrameSkips) =>
          currentFrame_' = (currentFrame_ + 1) % MAX_FRAMES_IN_FLIGHT]_vars

\* C11 amended -- the frame index advances by one modulo
\* MAX_FRAMES_IN_FLIGHT exactly when end_frame returns, whatever the
\* presentation reported (clean, suboptimal, stale, resize pending); a
\* begin_frame that reports a skipped frame leaves it unchanged.
IndexAdvancesOnEndFrame ==
    [][/\ EndFrameReturns =>
             currentFrame_' = (currentFrame_ + 1) % MAX_FRAMES_IN_FLIGHT
       /\ ~EndFrameReturns => currentFrame_' = currentFrame_]_vars

\* begin_frame has just skipped a frame on slot 1: an earlier end_frame moved
\* the index from 0 to 1 and the skip left it there.
IndexAfterSkipWitness ==
    /\ frameResult = "nullopt"
    /\ pc = "call"
    /\ currentFrame_ = 1
    /\ commandBuffers_[0] # "initial"

\* ========================================================================
\* Properties of the resolution-dependent resources and of the recorded
\* command stream (checked under SpecFrame)
\* ========================================================================
\* ceil(a / b), independently of how the program computes it
CeilDiv(a, b) == CHOOSE n \in 0..a : n * b >= a /\ (n - 1) * b < a

DispatchesRecorded == {j \in DOMAIN cmdStream : cmdStream[j].op = "Dispatch"}

\* C12 -- Tile resources match the resolution: whatever resizes, skipped
\* frames and swapchain recreations came before, tileCountX_ / tileCountY_
\* are ceil(width/16) and ceil(height/16) of the current swapchain extent,
\* every slot's tile light buffer and the descriptor range bound to it hold
\* tileCountX * tileCountY * (1 + MAX_LIGHTS_PER_TILE) entries, and every
\* light-culling dispatch recorded by begin_frame has these dimensions.
TilesMatchResolution ==
    LET tx == CeilDiv(swapchainExtent_.width, TILE_SIZE)
        ty == CeilDiv(swapchainExtent_.height, TILE_SIZE)
    IN  /\ tileCountX_ = tx
        /\ tileCountY_ = ty
        /\ \A k \in Slots :
              /\ tileLightSSBOs_[k] = tx * ty * (1 + MAX_LIGHTS_PER_TILE)
              /\ lightDescriptorSets_[k].buffer = k
              /\ lightDescriptorSets_[k].range = tx * ty * (1 + MAX_LIGHTS_PER_TILE)
        /\ \A j \in DispatchesRecorded :
              /\ cmdStream[j].x = tx
              /\ cmdStream[j].y = ty

\* begin_frame has recorded a dispatch over a 2 x 3 tile grid after the
\* swapchain was recreated for a 17 x 33 surface.
TilesAfterResizeWitness ==
    /\ swapchainExtent_ = Extent(TILE_SIZE + 1, 2 * TILE_SIZE + 1)
    /\ DispatchesRecorded # {}
    /\ \A j \in DispatchesRecorded : cmdStream[j].x = 2 /\ cmdStream[j].y = 3

\* ========================================================================
\* Properties of the tile grid (checked under SpecTiles)
\* ========================================================================
\* Pixel column x lies in tile column t (tiles are TILE_SIZE pixels wide)
InTile(x, t) == t * TILE_SIZE <= x /\ x < (t + 1) * TILE_SIZE

\* The tiles of the grid that contain pixel (x, y)
TilesOfPixel(x, y) ==
    {t \in (0..(tileCountX_ - 1)) \X (0..(tileCountY_ - 1)) :
        InTile(x, t[1]) /\ InTile(y, t[2])}

\* C13 -- Tile coverage: for a screen of W x H pixels (W, H >= 1) the grid
\* is ceil(W/16) x ceil(H/16) tiles, the debug window shows the same grid,
\* and every pixel (x, y) with x < W and y < H lies in exactly one tile.
TileCoverage ==
    LET W == swapchainExtent_.width
        H == swapchainExtent_.height
    IN  /\ W >= 1 /\ H >= 1
        /\ tileCountX_ = CeilDiv(W, 16)
        /\ tileCountY_ = CeilDiv(H, 16)
        /\ debug_window_tiles(swapchainExtent_) =
               [tileX |-> tileCountX_, tileY |-> tileCountY_]
        /\ \A x \in 0..(W - 1), y \in 0..(H - 1) :
              Cardinality(TilesOfPixel(x, y)) = 1

\* A 33 x 17 screen: one pixel column past two tiles, one row past one.
TileCoverageWitness ==
    /\ swapchainExtent_ = Extent(2 * TILE_SIZE + 1, TILE_SIZE + 1)
    /\ tileCountX_ = 3
    /\ tileCountY_ = 2
    /\ TilesOfPixel(2 * TILE_SIZE, TILE_SIZE) = {<<2, 1>>}

TableMutation ==
    \/ meshes_' # meshes_
    \/ materials_' # materials_
    \/ textures_' # textures_
    \/ materialDescriptorPool_' # materialDescriptorPool_
    \/ destroyedTex' # destroyedTex

\* C15 -- Table mutation requires global exclusivity: import_gltf and
\* delete_mesh with an index in range change the tables and destroy GPU
\* resources only once vkDeviceWaitIdle has returned, so at the moment of
\* the mutation no frame slot has a submission in flight; a failed import
\* and a delete with an index out of range change nothing.
MutationOnlyWhenIdle ==
    [][/\ TableMutation => \A k \in Slots : ~InFlight(k)
       /\ TableMutation => lastOp'.op \in {"import_gltf", "delete_mesh"}
       /\ (ImportStep \/ DeleteStep) => gpuQueue = <<>>]_vars

\* delete_mesh has removed a mesh after frames had been submitted, with
\* both slots' submissions completed by the time it went ahead.
MutationAfterFramesWitness ==
    /\ lastOp.op = "delete_mesh"
    /\ lastOp.framesSubmitted
    /\ \A k \in Slots : commandBuffers_[k] = "executable"

\* ========================================================================
\* Properties of the recorded command stream (checked under SpecFrame)
\* ========================================================================
\* Positions in the stream of the commands with this op and obj
Pos(op, obj) ==
    {j \in DOMAIN cmdStream : cmdStream[j].op = op /\ cmdStream[j].obj = obj}

\* Commands of the main shading pass: its begin, and what draw_scene records
ShadingPos ==
    Pos("BeginRenderPass", "renderPass_")
    \cup Pos("BindPipeline", "pbrPipeline_")
    \cup Pos("BindPipeline", "heatmapPipeline_")
    \cup Pos("BindPipeline", "debugLinePipeline_")
    \cup Pos("BindDescriptorSets", "materials_")

\* C16 -- Pass ordering within a frame: every stream recorded by begin_frame
\* holds, once each and in this order, the depth pass, the barrier taking
\* the depth image from attachment-write to shader-read, the light-culling
\* dispatch, the barrier making the compute writes visible to fragment
\* shading and returning the depth image to attachment layout, and the begin
\* of the main shading pass; no dispatch precedes the first barrier and no
\* shading command the second.
PassOrdering ==
    cmdStream # <<>> =>
        /\ \E p \in Pos("BeginRenderPass", "depthOnlyRenderPass_"),
              d \in Pos("EndRenderPass", "depthOnlyRenderPass_"),
              b1 \in Pos("PipelineBarrier", "depthImage_"),
              c \in Pos("Dispatch", "tileLightSSBOs_"),
              b2 \in Pos("PipelineBarrier", "memory+depthImage_"),
              m \in Pos("BeginRenderPass", "renderPass_") :
              /\ p < d /\ d < b1 /\ b1 < c /\ c < b2 /\ b2 < m
              /\ cmdStream[b1].old = DEPTH_ATTACHMENT
              /\ cmdStream[b1].new = SHADER_READ_ONLY
              /\ cmdStream[b2].old = SHADER_READ_ONLY
              /\ cmdStream[b2].new = DEPTH_ATTACHMENT
              /\ \A j \in Pos("Dispatch", "tileLightSSBOs_") : b1 < j
              /\ \A j \in ShadingPos : b2 < j
        /\ Cardinality(Pos("BeginRenderPass", "depthOnlyRenderPass_")) = 1
        /\ Cardinality(Pos("PipelineBarrier", "depthImage_")) = 1
        /\ Cardinality(Pos("Dispatch", "tileLightSSBOs_")) = 1
        /\ Cardinality(Pos("PipelineBarrier", "memory+depthImage_")) = 1
        /\ Cardinality(Pos("BeginRenderPass", "renderPass_")) = 1

\* A frame with the prepass drawing the meshes and draw_scene recorded after
\* begin_frame.
PassOrderingWitness ==
    /\ Pos("BindPipeline", "depthPrepassPipeline_") # {}
    /\ Pos("DrawIndexed", "mesh") # {}
    /\ Pos("BindPipeline", "pbrPipeline_") # {}
    /\ Pos("Dispatch", "tileLightSSBOs_") # {}

\* Positions of the commands that declare a layout the depth image is in
DeclaresLayout == {j \in DOMAIN cmdStream : cmdStream[j].old # ""}

\* C17 as stated -- for both settings of debugSkipDepthPrepass_ and every
\* frame, each barrier's declared old layout and each render pass's declared
\* initial layout for the depth image equals the layout the image has.
DeclaredLayoutEqualsActual ==
    \A j \in DeclaresLayout : cmdStream[j].old = cmdStream[j].actual

\* C17 amended -- with or without the prepass, begin_frame records a
\* depth-only pass that clears the depth image and leaves it in
\* depth-attachment layout; each barrier's declared old layout and the main
\* pass's declared initial layout equal the layout the image has, and the
\* depth-only pass declares UNDEFINED (contents discarded, then cleared)
\* whatever layout the image has: UNDEFINED on the first frame after a
\* swapchain recreation, depth-attachment on every other frame.
DeclaredLayoutEqualsActualOrUndefined ==
    /\ \A j \in DeclaresLayout :
          \/ cmdStream[j].old = cmdStream[j].actual
          \/ /\ cmdStream[j].old = UNDEFINED
             /\ cmdStream[j].op = "BeginRenderPass"
             /\ cmdStream[j].obj = "depthOnlyRenderPass_"
             /\ cmdStream[j].actual \in {UNDEFINED, DEPTH_ATTACHMENT}
    /\ \A j \in DeclaresLayout :
          cmdStream[j].op = "PipelineBarrier" \/ cmdStream[j].obj = "renderPass_"
              => cmdStream[j].old = cmdStream[j].actual
    /\ cmdStream # <<>> =>
          /\ Pos("BeginRenderPass", "depthOnlyRenderPass_") # {}
          /\ depthLayout = DEPTH_ATTACHMENT

\* The first frame after a swapchain recreation, recorded with the prepass
\* skipped: the bare clear pass finds the new depth image UNDEFINED and the
\* barrier after it finds it in depth-attachment layout.
SkipPrepassAfterRecreateWitness ==
    /\ cmdStream # <<>>
    /\ Pos("BindPipeline", "depthPrepassPipeline_") = {}
    /\ swapchainExtent_ = Extent(TILE_SIZE + 1, 2 * TILE_SIZE + 1)
    /\ \A j \in Pos("BeginRenderPass", "depthOnlyRenderPass_") :
          cmdStream[j].actual = UNDEFINED
    /\ \A j \in Pos("PipelineBarrier", "depthImage_") :
          cmdStream[j].actual = DEPTH_ATTACHMENT

\* The GPU-written resources that the stream being recorded or submission j
\* shares with submission i, still on the GPU
SharedWithRecording(i) == GpuWrites(cmdStream) \cap gpuQueue[i].writes

SharedBetween(i, j) == gpuQueue[i].writes \cap gpuQueue[j].writes

\* C18 as stated -- while a slot's submission is still executing, the
\* command stream of the other slot writes no buffer or image that the
\* first one also writes.
NoSharedGpuWrites ==
    /\ \A i \in DOMAIN gpuQueue : SharedWithRecording(i) = {}
    /\ \A i, j \in DOMAIN gpuQueue : i # j => SharedBetween(i, j) = {}

\* C18 amended -- while a slot's submission is still executing, the command
\* stream of the other slot writes no buffer that the first one also
\* writes: the tile light buffer a dispatch writes is the one of the slot
\* that records it. The one image both streams write is depthImage_, a
\* single image shared by all slots.
OnlyDepthImageShared ==
    /\ \A i \in DOMAIN gpuQueue : SharedWithRecording(i) \subseteq {<<"depthImage_", 0>>}
    /\ \A i, j \in DOMAIN gpuQueue :
          i # j => SharedBetween(i, j) \subseteq {<<"depthImage_", 0>>}
    /\ \A i \in DOMAIN gpuQueue :
          gpuQueue[i].writes =
              {<<"depthImage_", 0>>, <<"tileLightSSBOs_", gpuQueue[i].cmd>>}
    /\ cmdStream # <<>> =>
          GpuWrites(cmdStream) =
              {<<"depthImage_", 0>>, <<"tileLightSSBOs_", ctx.slot>>}
    /\ \A k \in Slots : lightDescriptorSets_[k].buffer = k

\* Slot 1 is being recorded while the submission of slot 0 is still on the
\* GPU.
TwoSlotsWritingWitness ==
    /\ cmdStream # <<>>
    /\ ctx = [slot |-> 1]
    /\ InFlight(0)

\* ========================================================================
\* Properties of draw_scene (checked under SpecFrame)
\* ========================================================================
NoCommand == Cmd("none", "", -1, 0, 0)

\* The last command before position j with this op that satisfies sel
LastBefore(s, j, K) ==
    IF K = {} THEN NoCommand
    ELSE s[CHOOSE k \in K : \A m \in K : m <= k]

\* The descriptor set bound at set number n when command j runs
SetInForce(s, j, n) ==
    LastBefore(s, j, {k \in 1..(j - 1) :
                         s[k].op = "BindDescriptorSets" /\ s[k].x = n})

\* The last command with this op before command j
OpInForce(s, j, op) ==
    LastBefore(s, j, {k \in 1..(j - 1) : s[k].op = op})

\* A mesh draw with everything in force for it: pipeline, frame set (0),
\* material set (1), light set (2), pushed transform, vertex and index
\* buffers
DrawInContext(s, j) ==
    <<s[j], OpInForce(s, j, "BindPipeline"), SetInForce(s, j, 0),
      SetInForce(s, j, 1), SetInForce(s, j, 2),
      OpInForce(s, j, "PushConstants"), OpInForce(s, j, "BindVertexBuffers"),
      OpInForce(s, j, "BindIndexBuffer")>>

\* The mesh draws of s from position j on, each in its context, in order
RECURSIVE MeshDrawsFrom(_, _)
MeshDrawsFrom(s, j) ==
    IF j > Len(s) THEN <<>>
    ELSE (IF s[j].op = "DrawIndexed" THEN <<DrawInContext(s, j)>> ELSE <<>>)
         \o MeshDrawsFrom(s, j + 1)

\* Positions of the overlay commands of s: an overlay pipeline bind and
\* everything recorded after it
OverlayPos(s) ==
    {j \in DOMAIN s :
        \E k \in 1..j : /\ s[k].op = "BindPipeline"
                        /\ s[k].obj \in {"heatmapPipeline_", "debugLinePipeline_"}}

\* what draw_scene records on the current tables with the given toggles
DrawSceneWith(showHeatmap, showDebugLines) ==
    draw_scene(meshes_, materials_, currentFrame_, showHeatmap, showDebugLines,
               debugLineVertexCount_)

\* draw_scene can be called: a frame is open and nothing drawn in it yet
DrawSceneCallable == pc = "call" /\ ctx # NoCtx /\ DrawsRecorded < MaxDrawsPerFrame

\* C19 -- Overlays do not perturb primary shading: executions of draw_scene
\* on the same tables that differ only in showHeatmap_ and showDebugLines_
\* record the same sequence of mesh draws, each with the same transform,
\* material set, vertex and index buffers, pipeline, frame set and light
\* set in force, and record every overlay command after the last mesh draw.
\* (Every setting of the toggles is compared with both toggles off, which
\* makes any two settings agree.)
OverlaysDoNotPerturb ==
    DrawSceneCallable =>
        LET plain == MeshDrawsFrom(DrawSceneWith(FALSE, FALSE), 1)
        IN  /\ Len(plain) = Len(meshes_)
            /\ \A h \in BOOLEAN, d \in BOOLEAN :
                  LET s == DrawSceneWith(h, d)
                  IN  /\ MeshDrawsFrom(s, 1) = plain
                      /\ \A o \in OverlayPos(s) :
                            \A j \in DOMAIN s : s[j].op = "DrawIndexed" => j < o

\* draw_scene has recorded both overlays after the draws of two meshes.
OverlaysRecordedWitness ==
    /\ Pos("BindPipeline", "heatmapPipeline_") # {}
    /\ Pos("BindPipeline", "debugLinePipeline_") # {}
    /\ Len(meshes_) = 2
    /\ \A j \in Pos("BindPipeline", "pbrPipeline_") :
          \A o \in Pos("BindPipeline", "heatmapPipeline_") : j < o

\* A delete_mesh call that removes the only mesh of the mesh table
DeleteLastMeshStep ==
    /\ opCount' = opCount + 1
    /\ lastOp'.op = "delete_mesh"
    /\ Len(meshes_) = 1

DefaultTextureIds == {defaultWhite_.id, defaultNormal_.id}

\* C20 -- Deleting the last mesh leaves a valid state: a delete_mesh call on
\* the only remaining mesh ends with the mesh table and the material table
\* empty, no material descriptor pool, and the index invariant holding; and
\* after any delete_mesh call the fallback textures defaultWhite_ and
\* defaultNormal_ are neither destroyed nor members of the texture table.
DeleteLastMeshValid ==
    [][/\ DeleteLastMeshStep =>
              /\ meshes_' = <<>>
              /\ materials_' = <<>>
              /\ materialDescriptorPool_' = VK_NULL_HANDLE
              /\ IndexInvariant'
       /\ (opCount' = opCount + 1 /\ lastOp'.op = "delete_mesh") =>
              /\ destroyedTex' \cap DefaultTextureIds = {}
              /\ \A j \in DOMAIN textures_' :
                    textures_'[j].id \notin DefaultTextureIds]_vars

\* The last mesh has been deleted and the delete destroyed scene textures
\* while an unreferenced texture stays in the table.
DeleteLastMeshWitness ==
    /\ lastOp.op = "delete_mesh"
    /\ meshes_ = <<>>
    /\ lastOp.removedTexIndices # <<>>
    /\ textures_ # <<>>

\* C21 -- The packed light array is capped: whatever the LightEnvironment,
\* update_uniforms copies at most MAX_LIGHTS packed lights into the light
\* buffer of the current slot, so the copy ends inside the buffer of
\* MAX_LIGHTS entries that create_light_buffers allocated.
PackedLightsCapped ==
    lastWrite.by = "update_uniforms" =>
        /\ lastWrite.data.copied <= MAX_LIGHTS
        /\ lastWrite.data.copied <= LightBufEntries
        /\ lastWrite.slot \in Slots

\* update_uniforms was handed more than MAX_LIGHTS lights and copied MAX_LIGHTS
PackedLightsCappedWitness ==
    /\ lastWrite.by = "update_uniforms"
    /\ lastWrite.data.lightCount > MAX_LIGHTS
    /\ lastWrite.data.copied = MAX_LIGHTS

\* C27 -- The light count that update_uniforms publishes in the FrameUBO
\* never exceeds the number of lights it stored in the light buffer of that
\* slot, for every LightEnvironment, those with more than MAX_LIGHTS lights
\* included.
PublishedCountWithinStored ==
    lastWrite.by = "update_uniforms" =>
        lastWrite.data.lightCount <= lastWrite.data.copied

\* C22 -- Binding rebuild after every structural change: after every
\* import_gltf and every delete_mesh that leaves at least one material,
\* every material holds a descriptor set and a factor buffer created, in
\* index order, from the one current material descriptor pool, which was
\* created for exactly materials_.size() sets and is not destroyed; no
\* material holds a set of a destroyed pool or a destroyed factor buffer;
\* and when no material remains there is no pool.
BindingsRebuilt ==
    lastOp.op \in {"import_gltf", "delete_mesh"} =>
        IF materials_ = <<>>
        THEN materialDescriptorPool_ = VK_NULL_HANDLE
        ELSE /\ materialDescriptorPool_ # VK_NULL_HANDLE
             /\ PoolHandle(materialDescriptorPool_) \notin destroyed
             /\ poolMaxSets = Len(materials_)
             /\ \A j \in DOMAIN materials_ :
                   /\ materials_[j].descriptorSet = materialDescriptorPool_
                   /\ materials_[j].setIndex = j - 1
                   /\ materials_[j].factorBuffer = <<materialDescriptorPool_, j - 1>>
                   /\ FactorBufferHandle(materials_[j].factorBuffer) \notin destroyed

\* A delete_mesh after an import removed a material and left at least two,
\* with the pools of the earlier rebuilds destroyed.
BindingsRebuiltWitness ==
    /\ opCount = 2
    /\ lastOp.op = "delete_mesh"
    /\ lastOp.removedMatIndices # <<>>
    /\ Len(materials_) >= 2
    /\ \E h \in destroyed : h[1] = "descriptorPool"

\* The meshes that remain once the target of the delete is erased
RemainingMeshes ==
    {meshes_[j] : j \in DOMAIN meshes_ \ {lastOp'.meshIdx + 1}}

\* Material i (0-based, before the call) is referenced by a remaining mesh
MaterialStillUsed(i) == \E m \in RemainingMeshes : m.materialIndex = i

\* Material i (0-based, before the call) is gone after the call
MaterialRemoved(i) ==
    \A j \in DOMAIN materials_' : materials_'[j].id # At(materials_, i).id

\* Texture t (0-based, before the call) is referenced by material i
RefersTo(i, t) == \E k \in 1..NumTexSlots : At(materials_, i).tex[k] = t

\* Texture t (0-based, before the call) is destroyed by the call
TextureDestroyed(t) ==
    /\ At(textures_, t).id \in destroyedTex' \ destroyedTex
    /\ \A j \in DOMAIN textures_' : textures_'[j].id # At(textures_, t).id

\* C23 -- Cascade exactness of delete_mesh: a material is removed if and
\* only if no remaining mesh references it once the target mesh is erased;
\* a texture is destroyed if and only if at least one removed material
\* referenced it and no surviving material references it; a texture that no
\* material referenced before the call stays in the texture table.
CascadeExact ==
    [][DeleteStep =>
        /\ \A i \in 0..(Len(materials_) - 1) :
              MaterialRemoved(i) <=> ~MaterialStillUsed(i)
        /\ \A t \in 0..(Len(textures_) - 1) :
              /\ TextureDestroyed(t) <=>
                    /\ \E i \in 0..(Len(materials_) - 1) :
                          MaterialRemoved(i) /\ RefersTo(i, t)
                    /\ ~\E i \in 0..(Len(materials_) - 1) :
                          ~MaterialRemoved(i) /\ RefersTo(i, t)
              /\ (~\E i \in 0..(Len(materials_) - 1) : RefersTo(i, t)) =>
                    /\ \E j \in DOMAIN textures_' :
                          textures_'[j].id = At(textures_, t).id
                    /\ At(textures_, t).id \notin destroyedTex'
       ]_vars

\* A delete removed a material and destroyed one of its textures, kept a
\* texture that the removed material shared with a surviving one, and left
\* an unreferenced texture in place.
CascadeExactWitness ==
    /\ lastOp.op = "delete_mesh"
    /\ lastOp.removedMatIndices # <<>>
    /\ lastOp.removedTexIndices # <<>>
    /\ lastOp.texCand \cap lastOp.texRef # {}
    /\ materials_ # <<>>

\* 1-based position in s of the entry with the given id
PosOf(s, id) == CHOOSE j \in DOMAIN s : s[j].id = id

\* t holds entries of s, by id, in the order they have in s
KeepsOrderOf(t, s) ==
    /\ \A j \in DOMAIN t : \E k \in DOMAIN s : s[k].id = t[j].id
    /\ \A a \in DOMAIN t : \A b \in DOMAIN t :
          a < b => PosOf(s, t[a].id) < PosOf(s, t[b].id)

\* C24 -- delete_mesh(i) with i < meshes_.size() removes exactly the mesh at
\* index i: the mesh table shrinks by one, the mesh at an index j < i stays
\* at j, the mesh at an index j > i moves to j - 1, and the surviving
\* materials and textures keep their relative order.
DeleteRemovesExactlyTarget ==
    [][DeleteStep =>
        LET i == lastOp'.meshIdx
        IN  /\ i < Len(meshes_)
            /\ Len(meshes_') = Len(meshes_) - 1
            /\ \A j \in 0..(Len(meshes_) - 1) :
                  /\ j < i => At(meshes_', j).id = At(meshes_, j).id
                  /\ j > i => At(meshes_', j - 1).id = At(meshes_, j).id
            /\ KeepsOrderOf(materials_', materials_)
            /\ KeepsOrderOf(textures_', textures_)
       ]_vars

\* A mesh that was neither first nor last was deleted, and at least two
\* materials and two textures survive the call.
DeleteRemovesExactlyTargetWitness ==
    /\ lastOp.op = "delete_mesh"
    /\ lastOp.meshIdx > 0
    /\ lastOp.meshIdx < Len(meshes_)
    /\ lastOp.removedMatIndices # <<>>
    /\ Len(materials_) >= 2
    /\ Len(textures_) >= 2

\* A delete_mesh call whose index is not an index of the mesh table
DeleteOutOfRangeStep ==
    /\ opCount' = opCount + 1
    /\ lastOp'.op \in {"delete_mesh", "delete_noop"}
    /\ lastOp'.meshIdx >= Len(meshes_)

\* C25 -- delete_mesh(i) with i >= meshes_.size() is a no-op: the mesh,
\* material and texture tables with all their GPU handles and the material
\* descriptor pool are unchanged, and no GPU object is destroyed.
DeleteOutOfRangeNoOp ==
    [][DeleteOutOfRangeStep =>
        /\ meshes_' = meshes_
        /\ materials_' = materials_
        /\ textures_' = textures_
        /\ materialDescriptorPool_' = materialDescriptorPool_
        /\ poolMaxSets' = poolMaxSets
        /\ destroyedTex' = destroyedTex
        /\ destroyed' = destroyed
        /\ destroyedTwice' = destroyedTwice
       ]_vars

\* An out-of-range delete_mesh was issued on a table that holds meshes,
\* materials with live bindings, and textures.
DeleteOutOfRangeWitness ==
    /\ lastOp.op = "delete_noop"
    /\ lastOp.meshIdx >= Len(meshes_)
    /\ Len(meshes_) >= 2
    /\ materialDescriptorPool_ # VK_NULL_HANDLE
    /\ textures_ # <<>>

\* A submission that will signal the fence of slot k is queued, or the frame
\* that reset the fence is being recorded and end_frame will submit it
FenceHasSubmission(k) ==
    \/ \E j \in DOMAIN gpuQueue : gpuQueue[j].fence = k
    \/ ctx # NoCtx /\ ctx.slot = k /\ currentFrame_ = k

\* begin_frame returned "no frame" and the next begin_frame is waiting for
\* the fence of the current slot
WaitingAfterSkip == pc = "bf_wait" /\ frameResult = "nullopt"

\* C26 -- A skipped frame never deadlocks the scheduler: a slot's fence is
\* reset only after a successful image acquire, so every unsignaled fence
\* has a submission that will signal it, and after begin_frame has returned
\* "no frame" for a stale surface the next begin_frame on the same slot
\* eventually returns instead of waiting forever on the slot's fence.
SkipNeverDeadlocks ==
    /\ [](\A k \in Slots : ~inFlightFences_[k] => FenceHasSubmission(k))
    /\ (WaitingAfterSkip ~> pc = "call")

\* The next begin_frame after a skipped frame is waiting, frames having been
\* submitted before the skip
WaitingAfterSkipWitness ==
    /\ WaitingAfterSkip
    /\ \E k \in Slots : commandBuffers_[k] = "executable"

\* C28 -- No double destruction: over any sequence of load_scene_empty,
\* import_gltf, delete_mesh and unload_scene followed by cleanup, each GPU
\* object owned by a table entry (a mesh's vertex and index buffers, a
\* material's factor buffer, a texture) and each material descriptor pool
\* is destroyed at most once.
NoDoubleDestruction == destroyedTwice = {}

\* cleanup ran after a delete_mesh that followed an import: pools, factor
\* buffers, mesh buffers and textures have been destroyed by three calls
NoDoubleDestructionWitness ==
    /\ pc = "cleaned"
    /\ opCount = 2
    /\ meshes_ # <<>>
    /\ \E h \in destroyed : h[1] = "descriptorPool" /\ h[2] # materialDescriptorPool_
    /\ \E h \in destroyed : h[1] = "factorBuffer" /\ h[2] # materialDescriptorPool_
    /\ \E h \in destroyed : h[1] = "vertexBuffer"
    /\ \E j \in DOMAIN meshes_ : VertexBufferHandle(meshes_[j]) \in destroyed
    /\ destroyedTex # {defaultWhite_.id, defaultNormal_.id}

\* ---------------------------------------------------------------------
\* Frames interleaved with scene edits: import_gltf and delete_mesh are
\* called at any point of the frame loop, also between begin_frame and
\* end_frame, with draw_scene recording the material binds.
NextUse ==
    \/ \E a \in InitAssets : ImportGltf(a, FALSE)
    \/ \E i \in 0..Len(meshes_) : DeleteMesh(i)
    \/ BeginFrameCall
    \/ BeginFrameWait
    \/ BeginFrameAcquire("VK_SUCCESS", FALSE)
    \/ DrawScene(FALSE, FALSE)
    \/ EndFrame("VK_SUCCESS")
    \/ GpuComplete

SpecUse == Init /\ [][NextUse]_vars

\* Handles the command stream of the open frame was recorded with
RecordingUses == IF ctx = NoCtx THEN {} ELSE GpuUses(cmdStream)

\* Handles the submitted, unfinished command streams were recorded with
SubmittedUses == UNION {gpuQueue[k].uses : k \in DOMAIN gpuQueue}

\* C29: no command stream that is being recorded, or is submitted and
\* unfinished, binds the vertex or index buffer of a mesh whose buffers
\* were destroyed, or a material descriptor set whose pool was destroyed.
NoUseAfterDestroy ==
    (RecordingUses \cup SubmittedUses) \cap destroyed = {}

\* ------------------------------------------------------------------------
\* Scene graph (SceneGraph::nodes, SceneGraph::roots)
\* ------------------------------------------------------------------------
\* std::nullopt of SceneNode::parent
NoParent == -1

\* name stands for the content of the node (name, transforms, mesh link)
add_node(g, name, parentId) ==
    LET idx == Len(g.nodes)
        pushed == Append(g.nodes, [name |-> name, parent |-> parentId,
                                   children |-> <<>>])
    IN  IF parentId # NoParent
        THEN [nodes |-> [pushed EXCEPT ![parentId + 1].children = Append(@, idx)],
              roots |-> g.roots]
        ELSE [nodes |-> pushed, roots |-> Append(g.roots, idx)]

\* variant: only the node itself is collected
collect_node_only(ns, toRemove, i) == toRemove

\* the breadth-first loop of remove_node: toRemove grows while i walks it
RECURSIVE collect_descendants(_, _, _)
collect_descendants(ns, toRemove, i) ==
    IF i >= Len(toRemove) THEN toRemove
    ELSE collect_descendants(ns, toRemove \o At(ns, At(toRemove, i)).children,
                             i + 1)

\* std::sort(..., std::greater<uint32_t>())
RECURSIVE sort_descending(_)
sort_descending(s) ==
    IF s = <<>> THEN <<>>
    ELSE LET m == CHOOSE j \in DOMAIN s : \A k \in DOMAIN s : s[k] <= s[j]
         IN  <<s[m]>> \o sort_descending(EraseAt(s, m - 1))

\* v.erase(std::remove(v.begin(), v.end(), value), v.end())
erase_remove(v, value) == SelectSeq(v, LAMBDA x : x # value)

\* for (uint32_t idx : toRemove) nodes.erase(nodes.begin() + idx)
RECURSIVE erase_nodes(_, _)
erase_nodes(ns, toRemove) ==
    IF toRemove = <<>> THEN ns
    ELSE erase_nodes(EraseAt(ns, Head(toRemove)), Tail(toRemove))

compute_new_index(toRemove, oldIdx) ==
    oldIdx - Cardinality({j \in DOMAIN toRemove : toRemove[j] < oldIdx})

remove_node(g, nodeIdx) ==
    IF nodeIdx >= Len(g.nodes) THEN g
    ELSE
    LET toRemove == sort_descending(collect_descendants(g.nodes, <<nodeIdx>>, 0))
        topNode == At(g.nodes, nodeIdx)
        detached ==
            IF topNode.parent # NoParent
            THEN [nodes |-> [g.nodes EXCEPT ![topNode.parent + 1].children =
                                               erase_remove(@, nodeIdx)],
                  roots |-> g.roots]
            ELSE [nodes |-> g.nodes, roots |-> erase_remove(g.roots, nodeIdx)]
        erased == erase_nodes(detached.nodes, toRemove)
    IN  [nodes |->
            [k \in DOMAIN erased |->
                [name |-> erased[k].name,
                 parent |-> IF erased[k].parent # NoParent
                            THEN compute_new_index(toRemove, erased[k].parent)
                            ELSE NoParent,
                 children |->
                    [c \in DOMAIN erased[k].children |->
                        compute_new_index(toRemove, erased[k].children[c])]]],
         roots |-> [r \in DOMAIN detached.roots |->
                      compute_new_index(toRemove, detached.roots[r])]]

\* Parent links lead to a node without parent in at most fuel steps
RECURSIVE ReachesRoot(_, _, _)
ReachesRoot(ns, i, fuel) ==
    IF i = NoParent THEN TRUE
    ELSE IF fuel = 0 THEN FALSE
    ELSE ReachesRoot(ns, At(ns, i).parent, fuel - 1)

NoDuplicates(s) == \A j, k \in DOMAIN s : s[j] = s[k] => j = k

NodeIndices(ns) == 0..(Len(ns) - 1)

\* The forest the two vectors are meant to hold: parent and children links
\* agree, are in range and acyclic, and roots lists the parentless nodes
WellFormed(ns, rs) ==
    /\ \A i \in NodeIndices(ns) :
          /\ At(ns, i).parent \in {NoParent} \cup NodeIndices(ns)
          /\ Range(At(ns, i).children) \subseteq NodeIndices(ns)
          /\ NoDuplicates(At(ns, i).children)
          /\ \A c \in NodeIndices(ns) :
                (c \in Range(At(ns, i).children)) <=> (At(ns, c).parent = i)
          /\ ReachesRoot(ns, i, Len(ns))
    /\ NoDuplicates(rs)
    /\ Range(rs) = {i \in NodeIndices(ns) : At(ns, i).parent = NoParent}

\* The elements of S as a vector, in the order given by rank
OrderBy(S, rank) ==
    [k \in 1..Cardinality(S) |->
        CHOOSE x \in S : Cardinality({y \in S : rank[y] < rank[x]}) = k - 1]

\* A graph of n nodes as a scene file can describe it: node i has parent p[i],
\* the children vectors and roots are in the order given by rank
GraphOf(n, p, rank) ==
    [nodes |-> [k \in 1..n |->
                  [name |-> k, parent |-> p[k - 1],
                   children |-> OrderBy({c \in 0..(n - 1) : p[c] = k - 1}, rank)]],
     roots |-> OrderBy({c \in 0..(n - 1) : p[c] = NoParent}, rank)]

InitGraph ==
    /\ InitFrame
    /\ InitScene
    /\ \E e \in StartSizes : InitResources(e)
    /\ \E n \in 0..MaxNodes :
       \E p \in [0..(n - 1) -> {NoParent} \cup 0..(n - 1)] :
       \E rank \in Permutations(0..(n - 1)) :
       \E g \in {GraphOf(n, p, rank)} :
          /\ WellFormed(g.nodes, g.roots)
          /\ nodes = g.nodes
          /\ roots = g.roots
    /\ lastGraphOp = NoGraphOp

tableVars == <<meshes_, materials_, textures_, materialDescriptorPool_, nextPool,
               destroyedTex, poolMaxSets, destroyed, destroyedTwice, opCount, lastOp>>

AddNode(name, parentId) ==
    /\ Len(nodes) < MaxNodes
    /\ name \notin {nodes[k].name : k \in DOMAIN nodes}
    /\ \E g \in {add_node([nodes |-> nodes, roots |-> roots], name, parentId)} :
          /\ nodes' = g.nodes
          /\ roots' = g.roots
    /\ lastGraphOp' = [op |-> "add_node", nodeIdx |-> parentId,
                       nodes |-> nodes, roots |-> roots]
    /\ UNCHANGED <<tableVars, frameVars>>

RemoveNode(nodeIdx) ==
    /\ \E g \in {remove_node([nodes |-> nodes, roots |-> roots], nodeIdx)} :
          /\ nodes' = g.nodes
          /\ roots' = g.roots
    /\ lastGraphOp' = [op |-> "remove_node", nodeIdx |-> nodeIdx,
                       nodes |-> nodes, roots |-> roots]
    /\ UNCHANGED <<tableVars, frameVars>>

NextGraph ==
    \/ \E name \in 1..MaxNodes :
       \E parentId \in {NoParent} \cup NodeIndices(nodes) : AddNode(name, parentId)
    \/ \E nodeIdx \in 0..MaxNodes : RemoveNode(nodeIdx)

SpecGraph == InitGraph /\ [][NextGraph]_vars

\* Node i of ns is a, or a descendant of a (by parent links)
RECURSIVE InSubtree(_, _, _, _)
InSubtree(ns, i, a, fuel) ==
    IF i = NoParent \/ fuel = 0 THEN FALSE
    ELSE IF i = a THEN TRUE
    ELSE InSubtree(ns, At(ns, i).parent, a, fuel - 1)

SubtreeOf(ns, a) == {i \in NodeIndices(ns) : InSubtree(ns, i, a, Len(ns))}

\* The content an index denotes; 0 for no node
NameAt(ns, i) == IF i = NoParent THEN 0 ELSE At(ns, i).name

NamesOf(ns, idx) == [j \in DOMAIN idx |-> NameAt(ns, idx[j])]

IndicesInRange(ns, rs) ==
    /\ \A k \in NodeIndices(ns) :
          /\ At(ns, k).parent \in {NoParent} \cup NodeIndices(ns)
          /\ Range(At(ns, k).children) \subseteq NodeIndices(ns)
    /\ Range(rs) \subseteq NodeIndices(ns)

\* C30: after remove_node(n) on a well-formed forest, node n and all its
\* descendants and no other node are gone; every remaining parent, child and
\* root index is below nodes.size() and denotes the same node (by content)
\* as before the call; roots lists exactly the nodes without a parent, and
\* the forest is well-formed again. With n >= nodes.size() nothing changes.
RemoveNodeKeepsForest ==
    (lastGraphOp.op = "remove_node"
        /\ WellFormed(lastGraphOp.nodes, lastGraphOp.roots)) =>
    LET before == lastGraphOp.nodes
        n == lastGraphOp.nodeIdx
        kept == NodeIndices(before) \ SubtreeOf(before, n)
    IN  IF n >= Len(before)
        THEN nodes = before /\ roots = lastGraphOp.roots
        ELSE /\ Len(nodes) = Cardinality(kept)
             /\ {nodes[k].name : k \in DOMAIN nodes}
                    = {At(before, i).name : i \in kept}
             /\ IndicesInRange(nodes, roots)
             /\ \A i \in kept : \E k \in NodeIndices(nodes) :
                   /\ At(nodes, k).name = At(before, i).name
                   /\ NameAt(nodes, At(nodes, k).parent)
                         = NameAt(before, At(before, i).parent)
                   /\ NamesOf(nodes, At(nodes, k).children)
                         = NamesOf(before, SelectSeq(At(before, i).children,
                                                     LAMBDA c : c # n))
             /\ NamesOf(nodes, roots)
                   = NamesOf(before, SelectSeq(lastGraphOp.roots,
                                               LAMBDA r : r # n))
             /\ NoDuplicates(roots)
             /\ Range(roots) = {k \in NodeIndices(nodes) :
                                   At(nodes, k).parent = NoParent}
             /\ WellFormed(nodes, roots)

\* a node with a descendant was removed, and a node that stays has a parent
\* whose index changed
RemoveNodeKeepsForestWitness ==
    /\ lastGraphOp.op = "remove_node"
    /\ WellFormed(lastGraphOp.nodes, lastGraphOp.roots)
    /\ lastGraphOp.nodeIdx < Len(lastGraphOp.nodes)
    /\ Len(lastGraphOp.nodes) - Len(nodes) >= 2
    /\ \E k \in NodeIndices(nodes) : \E i \in NodeIndices(lastGraphOp.nodes) :
          /\ At(nodes, k).name = At(lastGraphOp.nodes, i).name
          /\ At(nodes, k).parent # NoParent
          /\ At(nodes, k).parent # At(lastGraphOp.nodes, i).parent

====
